---- MODULE Spec2Model ----
(***************************************************************************)
(* State-machine model of the copilot-sentinel "wrapper" CLI.              *)
(*                                                                         *)
(* The state is the set of documents under the .wrapper/ state directory.  *)
(* Every CLI command is one action that models the whole handler; what a   *)
(* command reads from outside the state directory (the working tree as git *)
(* reports it, the credentials, the model's answer, the answers typed at   *)
(* prompts) is an input of the action, drawn from a small set.  The        *)
(* variable `last` records what the most recent command was given and      *)
(* what it reported, so that properties can speak about it.                *)
(***************************************************************************)
EXTENDS Naturals, Sequences, FiniteSets, TLC

VARIABLES
    architecture,    \* .wrapper/architecture.md exists
    repo_yaml,       \* .wrapper/repo.yaml: <<>> or <<mapping>>
    step_yaml,       \* .wrapper/step.yaml: <<>> or <<mapping>>
    state_json,      \* .wrapper/state.json (the ledger): <<>> or <<mapping>>
    copilot_output,  \* .wrapper/copilot_output.txt: <<>> or <<content>>
    baseline,        \* .wrapper/baseline_snapshot.json: <<>> or <<snapshot>>
    deviations,      \* .wrapper/deviations.yaml: <<>> or <<list of deviations>>
    plan,            \* .wrapper/implementation_plan.yaml: <<>> or <<phases>>
    artifacts,       \* the prompts present in .wrapper/ (the saved diff text,
                     \* which no command reads back, is left out)
    external_state,  \* .wrapper/external_state.json: <<>> or <<mapping>>
    now,             \* the wall clock, as the number of timestamps taken
    last,            \* the most recent command: inputs and report
    running          \* the invocations in progress: where each is in its
                     \* code and the ledger object it holds

vars == <<architecture, repo_yaml, step_yaml, state_json, copilot_output,
          baseline, deviations, plan, artifacts, external_state, now, last,
          running>>

docs == <<architecture, repo_yaml, step_yaml, state_json, copilot_output,
          baseline, deviations, plan, artifacts, external_state>>

----------------------------------------------------------------------------
(* Bounds of the model *)

\* commands of one behaviour that may read the clock
MaxClock == 3

----------------------------------------------------------------------------
(* Values *)

None == "None"

\* a path is the sequence of its components
WRAPPER_DIR == ".wrapper"
PathA == <<"a.txt">>
PathB == <<"b.txt">>
PathState == <<WRAPPER_DIR, "state.json">>
Paths == {PathA, PathB, PathState}

\* further paths of a working tree: the stored baseline, a source file and
\* its compiled form in a package directory, a file of an installed module
PathSnapshot == <<WRAPPER_DIR, "baseline_snapshot.json">>
PathSrc == <<"src", "m.py">>
PathPyc == <<"src", "m.pyc">>
PathMod == <<"node_modules", "x.js">>

\* a file of a built distribution's metadata directory, a Finder file
PathEgg == <<"pkg.egg-info", "PKG-INFO">>
PathDS == <<".DS_Store">>

\* a variant that finds no path in the state directory
StartsWithNothing(f) == FALSE

\* f.startswith('.wrapper/')
StartsWithWrapperDir(f) == Len(f) > 1 /\ f[1] = WRAPPER_DIR

----------------------------------------------------------------------------
(* Generic helpers *)

RECURSIVE SeqToSet(_)
SeqToSet(s) == IF s = <<>> THEN {} ELSE {Head(s)} \cup SeqToSet(Tail(s))

RECURSIVE SelectIn(_, _)
\* [x for x in s if x in S]
SelectIn(s, S) ==
    IF s = <<>> THEN <<>>
    ELSE (IF Head(s) \in S THEN <<Head(s)>> ELSE <<>>) \o SelectIn(Tail(s), S)

\* sorted(S): paths are ordered by their position in PathOrder
PathOrder ==
    <<PathDS, <<WRAPPER_DIR>>, PathSnapshot, PathState, PathA, PathB,
      <<"node_modules">>, PathMod, <<"pkg.egg-info">>, PathEgg,
      <<"src">>, PathSrc, PathPyc>>
SortedSeq(S) == SelectIn(PathOrder, S)

IsPrefix(s, t) == Len(s) <= Len(t) /\ SubSeq(t, 1, Len(s)) = s

NoDuplicates(s) == \A i, j \in 1..Len(s) : s[i] = s[j] => i = j

----------------------------------------------------------------------------
(* The ledger, state.json *)

\* repo_yaml.get("repo_name", "unknown") if repo_yaml else "unknown"
create_default_state(ry) ==
    [repo                        |-> IF ry = <<>> THEN "unknown" ELSE ry[1].repo_name,
     done_steps                  |-> <<>>,
     invariants                  |-> <<>>,
     last_verified               |-> 0,
     last_verify_status          |-> None,
     last_verify_step            |-> None,
     last_verify_timestamp       |-> 0,
     baseline_snapshot_timestamp |-> 0,
     baseline_verified           |-> None]

\* load_state(): the ledger read from the file, the default one when the
\* file is missing (the caller's action then leaves the file written)
load_state(file, ry) == IF file = <<>> THEN create_default_state(ry) ELSE file[1]

\* a variant that stamps last_verified and appends nothing
stamp_last_verified(st, step_id, result, t) == [st EXCEPT !.last_verified = t]

\* add_done_step(step_id, result) at time t, applied to the loaded ledger
add_done_step(st, step_id, result, t) ==
    [st EXCEPT !.done_steps = Append(@, [step_id |-> step_id, result |-> result,
                                         timestamp |-> t]),
               !.last_verified = t]

\* the views of the ledger that the properties speak about
DoneSteps == IF state_json = <<>> THEN <<>> ELSE state_json[1].done_steps
Invariants == IF state_json = <<>> THEN <<>> ELSE state_json[1].invariants
LastVerifyStatus == IF state_json = <<>> THEN None ELSE state_json[1].last_verify_status
LastVerifyStep == IF state_json = <<>> THEN None ELSE state_json[1].last_verify_step
LastVerifyTimestamp == IF state_json = <<>> THEN 0 ELSE state_json[1].last_verify_timestamp

DoneIds(st) == [i \in 1..Len(st.done_steps) |-> st.done_steps[i].step_id]

----------------------------------------------------------------------------
(* Step Definition, Repo Constraints, forbidden items *)

\* str.lower() on the texts the model uses
Lower(t) ==
    CASE t = "expose HTTP APIs" -> "expose http apis"
      [] t = "contain UI logic" -> "contain ui logic"
      [] t = "useState"         -> "usestate"
      [] t = "className="       -> "classname="
      [] t = "@Get("            -> "@get("
      [] t = "@Post("           -> "@post("
      [] t = "CREATE TABLE"     -> "create table"
      [] t = "SELECT * FROM"    -> "select * from"
      [] t = "INSERT INTO"      -> "insert into"
      [] t = "<DIV"             -> "<div"
      [] t = "VERDICT: PASS"    -> "verdict: pass"
      [] t = "VERDICT: FAIL"    -> "verdict: fail"
      [] t = "Verdict: Fail"    -> "verdict: fail"
      [] OTHER                  -> t

\* str.upper() on the model's answers
Upper(t) ==
    CASE t = "verdict: fail" -> "VERDICT: FAIL"
      [] t = "Verdict: Fail" -> "VERDICT: FAIL"
      [] t = "looks fine"    -> "LOOKS FINE"
      [] OTHER               -> t

\* keyword in forbidden_lower (substring test on a lower-cased text)
KeywordIn(keyword, text) ==
    CASE text = "expose http apis" -> keyword = "http"
      [] text = "contain ui logic" -> keyword = "ui"
      [] text = "no build scripts" -> keyword = "ui"
      [] OTHER                     -> FALSE

\* a forbidden item is a plain string or a single-key mapping
PlainItem(t) == [tag |-> "str", key |-> "", text |-> t]
LabeledItem(k, t) == [tag |-> "dict", key |-> k, text |-> t]

normalize_forbidden_item(item) ==
    IF item.tag = "str" THEN item.text
    ELSE IF item.tag = "dict" THEN item.text
    ELSE ""

\* the must_not list of `wrapper init`'s repo.yaml template
REPO_YAML_TEMPLATE ==
    [repo_name |-> "repo",
     must_not  |-> <<LabeledItem("example", "expose HTTP APIs"),
                     LabeledItem("example", "contain UI logic")>>]

\* the Step Definitions the model may propose: two verification steps and
\* an implementation step
Steps ==
    {[step_id |-> "s1", type |-> "verification", goal |-> "check the layout",
      allowed_files |-> <<>>, forbidden |-> <<>>,
      success_criteria |-> <<"c1", "c2">>],
     [step_id |-> "s1", type |-> "verification", goal |-> "",
      allowed_files |-> <<PathA>>, forbidden |-> <<PlainItem("no build scripts")>>,
      success_criteria |-> <<"c2", "c2">>],
     [step_id |-> "s2", type |-> "implementation", goal |-> "fix it",
      allowed_files |-> <<PathA>>, forbidden |-> <<>>,
      success_criteria |-> <<"c1">>]}

----------------------------------------------------------------------------
(* verify: the rule-based checks *)

VerificationResult ==
    [passed |-> TRUE, errors |-> <<>>, warnings |-> <<>>, llm_analysis |-> ""]

add_error(result, msg) ==
    [result EXCEPT !.passed = FALSE, !.errors = Append(@, msg)]

\* a variant that counts a warning as an error
warning_fails(result, msg) ==
    [result EXCEPT !.passed = FALSE, !.errors = Append(@, msg)]

add_warning(result, msg) ==
    [result EXCEPT !.warnings = Append(@, msg)]

\* error messages, by the text that introduces them
Msg(kind, paths, item, pattern) ==
    [kind |-> kind, paths |-> paths, item |-> item, pattern |-> pattern]

\* a variant that checks no file
check_no_files(changed, allowed, result) == result

check_allowed_files(changed, allowed, result) ==
    LET changed_code == {f \in changed : ~StartsWithWrapperDir(f)}
        disallowed   == changed_code \ SeqToSet(allowed)
    IN  IF allowed = <<>>
        THEN IF changed_code # {}
             THEN add_error(result, Msg("No files should be modified",
                                        SortedSeq(changed_code), "", ""))
             ELSE result
        ELSE IF disallowed # {}
             THEN add_error(result, Msg("Modified files not in allowed list",
                                        SortedSeq(disallowed), "", ""))
             ELSE result

pattern_keywords ==
    <<[keyword |-> "ui",
       patterns |-> <<"<div", "<button", "useState", "className=", "render(">>],
      [keyword |-> "http",
       patterns |-> <<"app.get(", "app.post(", "@Get(", "@Post(", "router.get",
                      "express()">>],
      [keyword |-> "database",
       patterns |-> <<"CREATE TABLE", "SELECT * FROM", "INSERT INTO", ".query(",
                      "prisma.">>]>>

\* pattern.lower() in diff.lower(); the diff is the set of tokens it contains
InDiff(pattern, diff) == \E t \in diff : Lower(t) = Lower(pattern)

RECURSIVE PatternErrors(_, _, _, _)
PatternErrors(patterns, item, diff, result) ==
    IF patterns = <<>> THEN result
    ELSE PatternErrors(Tail(patterns), item, diff,
            IF InDiff(Head(patterns), diff)
            THEN add_error(result, Msg("Forbidden pattern detected", <<>>, item,
                                       Head(patterns)))
            ELSE result)

RECURSIVE KeywordErrors(_, _, _, _)
KeywordErrors(table, item, diff, result) ==
    IF table = <<>> THEN result
    ELSE KeywordErrors(Tail(table), item, diff,
            IF KeywordIn(Head(table).keyword, Lower(item))
            THEN PatternErrors(Head(table).patterns, item, diff, result)
            ELSE result)

RECURSIVE check_forbidden_patterns(_, _, _)
check_forbidden_patterns(diff, forbidden, result) ==
    IF forbidden = <<>> THEN result
    ELSE LET forbidden_item == normalize_forbidden_item(Head(forbidden))
         IN  check_forbidden_patterns(diff, Tail(forbidden),
                IF forbidden_item = "" THEN result
                ELSE KeywordErrors(pattern_keywords, forbidden_item, diff, result))

check_new_directories(new_dirs, result) ==
    IF new_dirs # {} THEN add_warning(result, Msg("New directories created",
                                                  <<>>, "", ""))
    ELSE result

----------------------------------------------------------------------------
(* What a command is given from outside the state directory *)

\* the working directory as git sees it: not a repository, a repository
\* without a HEAD commit (git diff HEAD fails), a repository with a HEAD
GitStates == {"no repo", "no HEAD", "ok"}

\* tokens the diff text may contain
DiffTokens == {"<DIV"}

\* files in the working tree outside the state directory
Trees == {{PathA}, {PathA, PathB}}

\* how a use of the text-generation client ends without an answer:
\* get_llm_client finds no credential, generate raises RuntimeError (HTTP
\* error, URLError), or generate raises another exception (malformed
\* response body, missing key, timeout while reading)
LLMFailures == {"no credential", "RuntimeError", "Exception"}

\* answers of the verifier role to the analysis prompt
VerifyAnswers == {"VERDICT: PASS", "Verdict: Fail", "looks fine"}

\* answers of the verifier role to the deviations prompt
DeviationAnswers == {"deviations: [d1, d2]", "prose"}

Deviation(id) == [id |-> id, resolution_step |-> None]

\* yaml.safe_load(response) followed by the two shape checks
ParseDeviations(response) ==
    CASE response = "deviations: [d1, d2]" -> <<Deviation("d1"), Deviation("d2")>>
      [] OTHER                             -> <<>>

\* the report of a command: how it ended (return value True or False, an
\* exception or an interrupt caught by main), the banner it printed, the
\* errors it listed, the changed paths it was given, the answer it was given
Report(cmd, ret, out, errors, changed, answer) ==
    [cmd |-> cmd, ret |-> ret, out |-> out, errors |-> errors,
     changed |-> changed, answer |-> answer]

\* the invocations that may run at once against one working directory, and
\* an invocation that is not running
Procs == {1, 2}
Idle == [cmd |-> "none", pc |-> "idle", state |-> None, verdict |-> None]
NoneRunning == [p \in Procs |-> Idle]

\* a command that runs alone, from its start to its report
Ends(report) ==
    /\ last' = report
    /\ running' = running

----------------------------------------------------------------------------
(* verify *)

is_git_repo(git) == git # "no repo"

is_first_verification(st) == Len(st.done_steps) = 0

\* str.strip() on the texts the model uses
Strip(t) == IF t \in {"", " ", "\n\n"} THEN "" ELSE t

\* the transcript file: is the marker line in it, the text before the
\* marker (the whole text when there is none) and the text after it
TemplateOutput == [marker |-> TRUE, before |-> "instructions", after |-> "\n\n"]
PastedOutput == [marker |-> TRUE, before |-> "instructions", after |-> "analysis"]

\* a variant that takes the whole file for the transcript
get_copilot_output_text(file) == IF file = <<>> THEN None ELSE "text"

get_copilot_output_content(file) ==
    IF file = <<>> THEN None
    ELSE IF file[1].marker
         THEN IF Strip(file[1].after) # "" THEN Strip(file[1].after) ELSE None
         ELSE IF Strip(file[1].before) # "" THEN Strip(file[1].before) ELSE None

\* the directory names of EXCLUDED_DIRS that the model's trees use
EXCLUDED_DIRS == {"node_modules", WRAPPER_DIR, "*.egg-info"}

\* the names of the model's trees that start with "."
HiddenNames == {WRAPPER_DIR, ".DS_Store"}

\* the names of the model's trees that match a pattern of EXCLUDED_FILES
EXCLUDED_FILES == {"m.pyc", ".DS_Store"}

\* a variant that walks into every directory
excludes_no_dir(name) == FALSE

should_exclude_dir(name) == name \in HiddenNames \/ name \in EXCLUDED_DIRS

should_exclude_file(name) == name \notin HiddenNames /\ name \in EXCLUDED_FILES

\* os.walk with the pruning of dirnames: the walk enters a directory
\* when no name on the way to it, its own included, is excluded
Walked(d) == \A i \in 1..Len(d) : ~should_exclude_dir(d[i])

\* scan_repository over a tree given as the set of its files: the sorted
\* lists of the directories entered and of the files kept
scan_repository(tree) ==
    LET dirs == UNION {{SubSeq(f, 1, n) : n \in 1..(Len(f) - 1)} : f \in tree}
    IN  [directories |-> SortedSeq({d \in dirs : Walked(d)}),
         files |-> SortedSeq({f \in tree : Walked(SubSeq(f, 1, Len(f) - 1))
                                           /\ ~should_exclude_file(f[Len(f)])})]

capture_baseline_snapshot(tree, t) ==
    LET scan_data == scan_repository(tree)
    IN  [timestamp |-> t, directories |-> scan_data.directories,
         files |-> scan_data.files]

\* generate_deviations_via_llm: what is saved as the Deviations document
generate_deviations_via_llm(llm) ==
    IF llm \in LLMFailures THEN <<>> ELSE ParseDeviations(llm)

\* a variant that captures on every first verification
captures_on_first(st, bl) == is_first_verification(st)

\* capture_baseline_if_first reports whether it captures
captures_baseline(st, bl) == is_first_verification(st) /\ bl = <<>>

\* the directories of changed files that do not exist at HEAD
get_new_directories(changed, head_dirs) ==
    {SubSeq(f, 1, Len(f) - 1) : f \in {g \in changed : Len(g) > 1}} \ head_dirs

\* "VERDICT: FAIL" in llm_response.upper()
VerdictFail(llm_response) == Upper(llm_response) = "VERDICT: FAIL"

\* the rule-based layer of cmd_verify
rule_checks(step, must_not, changed, diff, head_dirs) ==
    IF changed # {}
    THEN check_forbidden_patterns(diff, must_not \o step.forbidden,
           check_new_directories(get_new_directories(changed, head_dirs),
             check_allowed_files(changed, step.allowed_files, VerificationResult)))
    ELSE VerificationResult

\* the model-based layer of cmd_verify, for an llm that did not end in an
\* exception other than RuntimeError
llm_analysis(result, llm) ==
    IF llm \in LLMFailures THEN result
    ELSE LET r == [result EXCEPT !.llm_analysis = llm]
         IN  IF VerdictFail(llm)
             THEN add_error(r, Msg("LLM analysis found issues", <<>>, "", ""))
             ELSE r

\* a variant that writes the status and leaves the step and the timestamp
record_status(st, status, step, t) == [st EXCEPT !.last_verify_status = status]

\* a variant that writes the verdict into a fresh ledger
record_verdict_afresh(st, status, step, t) ==
    [create_default_state(<<>>) EXCEPT !.last_verify_status = status,
                                       !.last_verify_step = step.step_id,
                                       !.last_verify_timestamp = t]

\* the three ledger fields a verdict writes
record_verdict(st, status, step, t) ==
    [st EXCEPT !.last_verify_status = status,
               !.last_verify_step = step.step_id,
               !.last_verify_timestamp = t]

\* what a verify run that captures no baseline reads of the deviations
\* answer and of the tree; llm and warnings are the outcome of the analysis
\* call and the warnings of a run that reaches its verdict
NotAsked == [llm_dev |-> None, tree |-> None, llm |-> None, warnings |-> <<>>]

cmd_verify(in) ==
    IF ~is_git_repo(in.git)
    THEN /\ Ends(Report("verify", "False", "Not in a git repository", <<>>,
                        in.changed, NotAsked))
         /\ UNCHANGED <<docs, now>>
    ELSE IF step_yaml = <<>>
    THEN /\ Ends(Report("verify", "False", "step.yaml not found", <<>>,
                        in.changed, NotAsked))
         /\ UNCHANGED <<docs, now>>
    ELSE
    LET step     == step_yaml[1]
        has_diff == in.changed # {}
        st0      == load_state(state_json, repo_yaml)
        capture  == captures_baseline(st0, baseline)
        t        == now + 1
        st1      == IF capture
                    THEN [st0 EXCEPT !.baseline_snapshot_timestamp = t,
                                     !.baseline_verified = "False"]
                    ELSE st0
        copilot  == get_copilot_output_content(copilot_output)
        must_not == IF repo_yaml = <<>> THEN <<>> ELSE repo_yaml[1].must_not
        r1       == rule_checks(step, must_not, in.changed, in.diff, in.head_dirs)
        r2       == llm_analysis(r1, in.llm)
        asked    == IF capture THEN [llm_dev |-> in.llm_dev, tree |-> in.tree,
                                     llm |-> None, warnings |-> <<>>]
                    ELSE NotAsked
        shown    == [asked EXCEPT !.llm = in.llm, !.warnings = r2.warnings]
    IN
    /\ UNCHANGED <<architecture, repo_yaml, step_yaml, copilot_output, plan,
                   external_state>>
    /\ baseline' = IF capture THEN <<capture_baseline_snapshot(in.tree, t)>>
                   ELSE baseline
    /\ deviations' = IF capture THEN <<generate_deviations_via_llm(in.llm_dev)>>
                     ELSE deviations
    /\ IF in.git = "no HEAD"
       THEN \* get_diff raises RuntimeError, which leaves cmd_verify
            /\ Ends(Report("verify", "exception", "Git command failed", <<>>,
                           in.changed, asked))
            /\ state_json' = <<st1>>
            /\ now' = IF capture THEN t ELSE now
            /\ UNCHANGED artifacts
       ELSE IF step.type = "verification" /\ ~has_diff /\ copilot = None
       THEN /\ Ends(Report("verify", "False", "COPILOT OUTPUT REQUIRED", <<>>,
                           in.changed, asked))
            /\ state_json' = <<st1>>
            /\ now' = IF capture THEN t ELSE now
            /\ UNCHANGED artifacts
       ELSE IF in.llm = "Exception"
       THEN \* not a RuntimeError: the except clause does not catch it
            /\ Ends(Report("verify", "exception", "Exception", r1.errors,
                           in.changed, asked))
            /\ state_json' = <<st1>>
            /\ now' = IF capture THEN t ELSE now
            /\ UNCHANGED artifacts
       ELSE /\ now' = t
            /\ IF r2.passed
               THEN /\ state_json' = <<record_verdict(st1, "PASS", step, t)>>
                    /\ Ends(Report("verify", "True", "VERIFICATION PASSED",
                                   r2.errors, in.changed, shown))
                    /\ UNCHANGED artifacts
               ELSE /\ state_json' = <<record_verdict(st1, "FAIL", step, t)>>
                    /\ Ends(Report("verify", "False", "VERIFICATION FAILED",
                                   r2.errors, in.changed, shown))
                    /\ artifacts' = artifacts \cup {"repair_prompt.txt"}

\* the inputs of a verify run; an input the run does not read in the
\* current state is given one value only
VerifyInputs ==
    LET capture == step_yaml # <<>>
                   /\ captures_baseline(load_state(state_json, repo_yaml), baseline)
        first   == [tree    : IF capture THEN {{PathA, PathB}} ELSE {{PathA}},
                    llm_dev : IF capture THEN DeviationAnswers \cup LLMFailures
                              ELSE {"prose"}]
    IN
    {[git |-> "no repo", changed |-> {}, diff |-> {}, head_dirs |-> {},
      tree |-> {PathA}, llm_dev |-> "prose", llm |-> "looks fine"]}
    \cup {[git |-> "no HEAD", changed |-> {}, diff |-> {}, head_dirs |-> {},
           tree |-> f.tree, llm_dev |-> f.llm_dev, llm |-> "looks fine"] : f \in first}
    \cup {[git |-> "ok", changed |-> c, diff |-> {}, head_dirs |-> {},
           tree |-> f.tree, llm_dev |-> f.llm_dev, llm |-> a] :
            f \in first, c \in {{}, {PathA}, {PathB}},
            a \in {"Exception", "VERDICT: PASS", "Verdict: Fail"}}

Verify ==
    /\ now < MaxClock
    /\ \E in \in VerifyInputs : cmd_verify(in)

\* Step Definitions for the runs that explore the checks of verify
StepsAny ==
    Steps
    \cup {[step_id |-> "s2", type |-> "implementation", goal |-> "",
           allowed_files |-> <<>>, forbidden |-> <<PlainItem("no build scripts")>>,
           success_criteria |-> <<>>],
          [step_id |-> "s1", type |-> "verification", goal |-> "check two files",
           allowed_files |-> <<PathA, PathB>>, forbidden |-> <<>>,
           success_criteria |-> <<"c1">>]}

\* every combination of the inputs the two layers of checks read; the tree
\* and the deviations answer of a capturing run are given one value
VerifyInputsAny ==
    LET first   == [tree    : {{PathA}},
                    llm_dev : {"prose"}]
        trees   == {[changed |-> c, diff |-> d, head_dirs |-> h] :
                       c \in SUBSET Paths, d \in SUBSET DiffTokens,
                       h \in SUBSET {<<WRAPPER_DIR>>}}
        worlds  == {w \in trees :
                       /\ (w.changed = {} => w.diff = {})
                       /\ (PathState \notin w.changed => w.head_dirs = {})}
    IN
    {[git |-> g, changed |-> {}, diff |-> {}, head_dirs |-> {},
      tree |-> f.tree, llm_dev |-> f.llm_dev, llm |-> "looks fine"] :
        g \in GitStates \ {"ok"}, f \in first}
    \cup {[git |-> "ok", changed |-> w.changed, diff |-> w.diff,
           head_dirs |-> w.head_dirs, tree |-> f.tree, llm_dev |-> f.llm_dev,
           llm |-> a] :
            f \in first, w \in worlds, a \in LLMFailures \cup VerifyAnswers}

\* verify runs of one behaviour, when each is run on every input
MaxVerifies == 2

VerifyAny ==
    /\ now < MaxVerifies
    /\ \E in \in VerifyInputsAny : cmd_verify(in)

----------------------------------------------------------------------------
(* accept *)

\* the key that ends the process at a prompt
Interrupt == "^C"

\* input(...).strip().lower()
StripLower(a) == IF a = " Y " THEN "y" ELSE a

\* json.loads(response) and the list check
ParseResolved(response) ==
    CASE response = "[]"   -> [ok |-> TRUE, ids |-> {}]
      [] response = "[d1]" -> [ok |-> TRUE, ids |-> {"d1"}]
      [] response = "[d1, d2]" -> [ok |-> TRUE, ids |-> {"d1", "d2"}]
      [] OTHER             -> [ok |-> FALSE, ids |-> {}]

\* does update_deviation_resolutions reach its model call
asks_resolutions(file) ==
    /\ file # <<>>
    /\ \E i \in 1..Len(file[1]) : file[1][i].resolution_step = None

\* a variant that stamps every deviation the model returned
stamp_returned(file, step_id, llm) ==
    IF file = <<>> THEN file
    ELSE <<[i \in 1..Len(file[1]) |->
             IF file[1][i].id \in ParseResolved(llm).ids
             THEN [file[1][i] EXCEPT !.resolution_step = step_id]
             ELSE file[1][i]]>>

\* update_deviation_resolutions: the Deviations document it leaves
update_deviation_resolutions(file, step_id, llm) ==
    IF ~asks_resolutions(file) THEN file
    ELSE IF llm \in LLMFailures THEN file
    ELSE LET parsed == ParseResolved(llm)
         IN  IF ~parsed.ok THEN file
             ELSE <<[i \in 1..Len(file[1]) |->
                      IF file[1][i].id \in parsed.ids
                         /\ file[1][i].resolution_step = None
                      THEN [file[1][i] EXCEPT !.resolution_step = step_id]
                      ELSE file[1][i]]>>

\* a variant of the gate that looks at the status only
accept_blocked_by_status(st, step_id) == st.last_verify_status # "PASS"

\* the STRICT GATE of cmd_accept: is the accept blocked
accept_blocked(st, step_id) ==
    st.last_verify_status # "PASS" \/ st.last_verify_step # step_id

\* a variant of the prompt that goes on unless the answer is 'n'
confirms_unless_no(ans) == StripLower(ans) # "n"

\* the "Accept again?" prompt: does the answer let the accept go on
confirms(ans) == StripLower(ans) = "y"

RECURSIVE AppendNew(_, _, _)
\* for criterion in success_criteria: if criterion not in existing: append
AppendNew(invariants, existing, criteria) ==
    IF criteria = <<>> THEN invariants
    ELSE AppendNew(IF Head(criteria) \notin existing
                   THEN Append(invariants, Head(criteria)) ELSE invariants,
                   existing, Tail(criteria))

\* the invariants update of cmd_accept
update_invariants(st, step) ==
    IF step.type = "verification" /\ step.success_criteria # <<>>
    THEN [st EXCEPT !.invariants =
             AppendNew(@, SeqToSet(st.invariants), step.success_criteria)]
    ELSE st

\* a step of the Implementation Plan
PlanStep(id) ==
    [step_id |-> id, completed |-> FALSE, completed_at |-> 0,
     files_changed |-> <<>>, implementation_notes |-> ""]

\* positions <<phase, step>> of a plan
Positions(phases) ==
    {pos \in (1..Len(phases)) \X (1..2) : pos[2] <= Len(phases[pos[1]])}

\* position of the first plan step with this id, or <<>>
FirstMatch(phases, step_id) ==
    LET hits == {pos \in Positions(phases) :
                    phases[pos[1]][pos[2]].step_id = step_id}
    IN  IF hits = {} THEN <<>>
        ELSE CHOOSE pos \in hits : \A q \in hits :
                 pos[1] < q[1] \/ (pos[1] = q[1] /\ pos[2] <= q[2])

\* a variant that marks every plan step with this id
mark_matching_steps(phases, step_id, files_changed, notes, t) ==
    [i \in 1..Len(phases) |->
        [j \in 1..Len(phases[i]) |->
            IF phases[i][j].step_id = step_id
            THEN [phases[i][j] EXCEPT !.completed = TRUE, !.completed_at = t]
            ELSE phases[i][j]]]

\* mark_step_complete_in_plan: the plan it leaves (unchanged when no match)
mark_step_complete_in_plan(phases, step_id, files_changed, notes, t) ==
    LET pos == FirstMatch(phases, step_id)
    IN  IF pos = <<>> THEN phases
        ELSE [phases EXCEPT ![pos[1]][pos[2]] =
                [@ EXCEPT !.completed = TRUE,
                          !.completed_at = t,
                          !.files_changed =
                              IF files_changed # {}
                              THEN <<{f \in files_changed : ~StartsWithWrapperDir(f)}>>
                              ELSE @,
                          !.implementation_notes = IF notes # "" THEN notes ELSE @]]

cmd_accept(in) ==
    IF step_yaml = <<>>
    THEN /\ Ends(Report("accept", "False", "step.yaml not found", <<>>, {}, None))
         /\ UNCHANGED <<docs, now>>
    ELSE
    LET step    == step_yaml[1]
        step_id == step.step_id
        st      == load_state(state_json, repo_yaml)
        already == step_id \in SeqToSet(DoneIds(st))
    IN
    IF accept_blocked(st, step_id)
    THEN /\ Ends(Report("accept", "False", "ACCEPT BLOCKED", <<>>, {}, None))
         /\ state_json' = <<st>>
         /\ UNCHANGED <<architecture, repo_yaml, step_yaml, copilot_output, baseline,
                        deviations, plan, artifacts, external_state,
                        now>>
    ELSE IF already /\ in.ans = Interrupt
    THEN /\ Ends(Report("accept", "interrupt", "Aborted.", <<>>, {}, in.ans))
         /\ state_json' = <<st>>
         /\ UNCHANGED <<architecture, repo_yaml, step_yaml, copilot_output, baseline,
                        deviations, plan, artifacts, external_state,
                        now>>
    ELSE IF already /\ ~confirms(in.ans)
    THEN /\ Ends(Report("accept", "False", "Aborted.", <<>>, {}, in.ans))
         /\ state_json' = <<st>>
         /\ UNCHANGED <<architecture, repo_yaml, step_yaml, copilot_output, baseline,
                        deviations, plan, artifacts, external_state,
                        now>>
    ELSE
    LET t     == now + 1
        st1   == add_done_step(st, step_id, step.type \o " completed", t)
        st2   == update_invariants(st1, step)
        asked == IF already THEN in.ans ELSE None
    IN
    /\ now < MaxClock
    /\ now' = t
    /\ state_json' = <<st2>>
    /\ deviations' = IF step.goal # ""
                     THEN update_deviation_resolutions(deviations, step_id, in.llm)
                     ELSE deviations
    /\ UNCHANGED <<architecture, repo_yaml, step_yaml, copilot_output, baseline,
                   artifacts, external_state>>
    /\ IF plan = <<>>
       THEN /\ Ends(Report("accept", "True", "accepted", <<>>, {}, asked))
            /\ UNCHANGED plan
       ELSE IF in.git # "ok"
       THEN \* get_changed_files raises RuntimeError, which leaves cmd_accept
            /\ Ends(Report("accept", "exception", "Git command failed", <<>>, {},
                           asked))
            /\ UNCHANGED plan
       ELSE IF in.notes = Interrupt
       THEN /\ Ends(Report("accept", "interrupt", "Aborted.", <<>>, {}, asked))
            /\ UNCHANGED plan
       ELSE /\ Ends(Report("accept", "True", "accepted", <<>>, {}, asked))
            /\ plan' = <<mark_step_complete_in_plan(plan[1], step_id, in.changed,
                                                    in.notes, t)>>

\* the inputs of an accept run; an input the run does not read in the
\* current state is given one value only
AcceptInputs ==
    LET st      == load_state(state_json, repo_yaml)
        open    == step_yaml # <<>> /\ ~accept_blocked(st, step_yaml[1].step_id)
        already == open /\ step_yaml[1].step_id \in SeqToSet(DoneIds(st))
        asks    == open /\ step_yaml[1].goal # "" /\ asks_resolutions(deviations)
        planned == open /\ plan # <<>>
        yes     == IF already THEN "y" ELSE ""
    IN
    \* the human confirms (or is not asked) and answers the notes prompt
    {[ans |-> yes, llm |-> a, git |-> "ok", changed |-> w.changed, notes |-> w.notes] :
        a \in (IF asks THEN {"no credential", "Exception", "[d1]", "prose"}
               ELSE {"no credential"}),
        w \in (IF planned
               THEN {[changed |-> {}, notes |-> ""],
                     [changed |-> {PathA, PathState}, notes |-> "done by hand"],
                     [changed |-> {}, notes |-> Interrupt]}
               ELSE {[changed |-> {}, notes |-> ""]})}
    \* the human confirms in capitals
    \cup {[ans |-> " Y ", llm |-> "no credential", git |-> "ok", changed |-> {},
           notes |-> ""] : x \in (IF already THEN {1} ELSE {})}
    \* the working directory is not a git repository
    \cup {[ans |-> yes, llm |-> "no credential", git |-> "no repo", changed |-> {},
           notes |-> ""] : x \in (IF planned THEN {1} ELSE {})}
    \* the human does not confirm
    \cup {[ans |-> a, llm |-> "no credential", git |-> "ok", changed |-> {},
           notes |-> ""] : a \in (IF already THEN {"n", "", Interrupt} ELSE {})}

Accept == \E in \in AcceptInputs : cmd_accept(in)

----------------------------------------------------------------------------
(* init, propose, compile *)

\* cmd_init_basic: the templates are written where a document is missing
cmd_init_basic ==
    /\ architecture' = TRUE
    /\ repo_yaml' = IF repo_yaml = <<>> THEN <<REPO_YAML_TEMPLATE>> ELSE repo_yaml
    /\ UNCHANGED artifacts

CmdInit ==
    /\ cmd_init_basic
    /\ Ends(Report("init", "True", "initialized", <<>>, {}, None))
    /\ UNCHANGED <<step_yaml, state_json, copilot_output, baseline, deviations, plan,
                   external_state, now>>

\* what the use of the step_proposer role gives: a failure, or a response
\* text that is a step mapping, a mapping without step_id, or prose, and
\* that may be wrapped in code-fence lines
ProposeAnswers ==
    [fenced : BOOLEAN, kind : {"mapping"}, body : Steps]
    \cup [fenced : {FALSE}, kind : {"mapping without step_id", "prose"} \cup LLMFailures,
          body : {<<>>}]

\* a variant that leaves the fence lines in
KeepFences(answer) == answer

\* the response after response.strip() and the removal of the fence lines
StripFences(answer) == [fenced |-> FALSE, kind |-> answer.kind, body |-> answer.body]

\* yaml.safe_load and the two checks: is the text a mapping with step_id
\* (a text with fence lines is no YAML)
ValidStep(text) == ~text.fenced /\ text.kind = "mapping"

\* what the backend would answer to a second call of the step_proposer role
SecondAnswer ==
    [fenced |-> FALSE, kind |-> "mapping",
     body |-> [step_id |-> "s2", type |-> "implementation", goal |-> "fix it",
               allowed_files |-> <<PathA>>, forbidden |-> <<>>,
               success_criteria |-> <<"c1">>]]

cmd_propose(in) ==
    IF ~architecture \/ repo_yaml = <<>>
    THEN \* check_required_files runs init and gives up
         /\ cmd_init_basic
         /\ Ends(Report("propose", "False", "Required files missing", <<>>, {}, None))
         /\ UNCHANGED <<step_yaml, state_json, copilot_output, baseline, deviations,
                        plan, external_state, now>>
    ELSE
    /\ state_json' = <<load_state(state_json, repo_yaml)>>
    /\ UNCHANGED <<architecture, repo_yaml, copilot_output, baseline, deviations, plan,
                   artifacts, external_state, now>>
    /\ IF step_yaml # <<>> /\ in.ans = Interrupt
       THEN /\ Ends(Report("propose", "interrupt", "Aborted.", <<>>, {}, in))
            /\ UNCHANGED step_yaml
       ELSE IF step_yaml # <<>> /\ StripLower(in.ans) # "y"
       THEN /\ Ends(Report("propose", "False", "Aborted.", <<>>, {}, in))
            /\ UNCHANGED step_yaml
       ELSE IF in.llm.kind = "no credential"
       THEN /\ Ends(Report("propose", "False", "No LLM API key configured", <<>>, {},
                           in))
            /\ UNCHANGED step_yaml
       ELSE IF in.llm.kind = "RuntimeError"
       THEN /\ Ends(Report("propose", "False", "LLM error", <<>>, {}, in))
            /\ UNCHANGED step_yaml
       ELSE IF in.llm.kind = "Exception"
       THEN /\ Ends(Report("propose", "exception", "Exception", <<>>, {}, in))
            /\ UNCHANGED step_yaml
       ELSE IF ~ValidStep(StripFences(in.llm))
       THEN /\ Ends(Report("propose", "False", "LLM returned invalid YAML", <<>>, {},
                           in))
            /\ UNCHANGED step_yaml
       ELSE /\ Ends(Report("propose", "True", "Proposed step written", <<>>, {}, in))
            /\ step_yaml' = <<StripFences(in.llm).body>>

\* the inputs of a propose run: the answer at the overwrite prompt, the
\* response of the model (and what it would respond if asked again); an
\* input the run does not read is given one value only, and the other
\* responses and answers are run in the propose specification
ProposeInputs ==
    [ans : {"y"},
     llm : {a \in ProposeAnswers : ~a.fenced /\ a.kind \in {"mapping", "prose", "Exception"}},
     again : {SecondAnswer}]
    \cup [ans : IF step_yaml # <<>> THEN {"n", Interrupt} ELSE {},
          llm : {[fenced |-> FALSE, kind |-> "prose", body |-> <<>>]},
          again : {SecondAnswer}]

Propose == \E in \in ProposeInputs : cmd_propose(in)

cmd_compile(llm) ==
    IF ~architecture \/ repo_yaml = <<>> \/ step_yaml = <<>>
    THEN /\ Ends(Report("compile", "False", "Missing required files", <<>>, {}, None))
         /\ UNCHANGED <<docs, now>>
    ELSE
    /\ state_json' = <<load_state(state_json, repo_yaml)>>
    /\ UNCHANGED <<architecture, repo_yaml, step_yaml, baseline, deviations, plan,
                   external_state, now>>
    /\ IF llm = "no credential"
       THEN /\ Ends(Report("compile", "False", "No LLM API key configured", <<>>, {},
                           None))
            /\ UNCHANGED <<copilot_output, artifacts>>
       ELSE IF llm = "RuntimeError"
       THEN /\ Ends(Report("compile", "False", "LLM error", <<>>, {}, None))
            /\ UNCHANGED <<copilot_output, artifacts>>
       ELSE IF llm = "Exception"
       THEN /\ Ends(Report("compile", "exception", "Exception", <<>>, {}, None))
            /\ UNCHANGED <<copilot_output, artifacts>>
       ELSE /\ Ends(Report("compile", "True", "Generated", <<>>, {}, None))
            /\ artifacts' = artifacts \cup {"copilot_prompt.txt", "verify.md"}
            /\ copilot_output' = <<TemplateOutput>>

Compile == \E llm \in {"no credential", "Exception", "prompt text"} : cmd_compile(llm)

----------------------------------------------------------------------------
(* plan, test, snapshot, diff-baseline, sync-external *)

\* the plans the wizard may end with: the step ids of each phase
PlanLayouts == {<<<<"s1">>, <<"s1">>>>}

BuildPlan(layout) ==
    [i \in 1..Len(layout) |-> [j \in 1..Len(layout[i]) |-> PlanStep(layout[i][j])]]

cmd_plan_status(cmd) ==
    IF plan = <<>>
    THEN /\ Ends(Report(cmd, "False", "No implementation plan found", <<>>, {}, None))
         /\ UNCHANGED <<docs, now>>
    ELSE /\ Ends(Report(cmd, "True", "plan rendered", <<>>, {}, None))
         /\ state_json' = <<load_state(state_json, repo_yaml)>>
         /\ UNCHANGED <<architecture, repo_yaml, step_yaml, copilot_output, baseline,
                        deviations, plan, artifacts, external_state,
                        now>>

PlanStatus == cmd_plan_status("plan status")

\* cmd_plan_show reads the same two documents as cmd_plan_status
PlanShow == cmd_plan_status("plan show")

\* an entry of the menu of refine_phases as the human picks it: the index
\* of the option and, for "Remove a phase" and "Regenerate phases", the
\* answer at its yes/no prompt ("Remove a phase" is asked for phase 1)
Pick(choice, sure) == [choice |-> choice, sure |-> sure]
Continue == Pick(0, FALSE)

\* list.pop(0)
RemoveFirst(phases) == IF phases = <<>> THEN phases ELSE Tail(phases)

RECURSIVE refine_phases(_, _)
\* refine_phases over the entries picked at its menu: the exception raised
\* when the input ends at the menu, else what it returns: the phases, or
\* None (the empty tuple) to cancel
refine_phases(phases, picks) ==
    IF picks = <<>> THEN [raised |-> "EOFError", phases |-> <<>>]
    ELSE LET pick == Head(picks)
         IN  CASE pick.choice = 0 -> [raised |-> None, phases |-> <<phases>>]
               [] pick.choice = 3 -> refine_phases(phases, Tail(picks))
               [] pick.choice = 4 ->
                      refine_phases(IF pick.sure THEN RemoveFirst(phases) ELSE phases,
                                    Tail(picks))
               [] pick.choice = 5 ->
                      IF pick.sure THEN [raised |-> None, phases |-> <<>>]
                      ELSE refine_phases(phases, Tail(picks))
               [] OTHER -> [raised |-> None, phases |-> <<>>]

\* how the wizard ends: the human cancels at one of its prompts, a model
\* call or its parse fails, or the plan is built
WizardEnds ==
    [end : {"cancel", "failed"}, layout : {<<>>}, refine : {<<>>}]
    \cup [end : {"built"}, layout : PlanLayouts, refine : {<<Continue>>}]

\* the keys of the menu of an existing plan: view, regenerate, cancel
MenuKeys == <<"1", "2", "3">>

RECURSIVE ask_choice(_, _)
\* ask_choice over what is typed at its prompt: a key that is no option,
\* and an interrupt, are answered with a message and the prompt is shown
\* again; the index of the option chosen (from 0), or the exception raised
\* when the input ends
ask_choice(keys, options) ==
    IF keys = <<>> THEN [raised |-> "EOFError", idx |-> 0]
    ELSE IF \E i \in 1..Len(options) : options[i] = Head(keys)
    THEN [raised |-> None,
          idx |-> (CHOOSE i \in 1..Len(options) : options[i] = Head(keys)) - 1]
    ELSE ask_choice(Tail(keys), options)

cmd_plan_init(keys, wizard) ==
    LET asked   == ask_choice(keys, MenuKeys)
        choice  == asked.idx
        typed   == [keys |-> IF plan # <<>> THEN keys ELSE <<>>, wizard |-> wizard]
        refined == refine_phases(wizard.layout, wizard.refine)
    IN
    IF plan # <<>> /\ asked.raised # None
    THEN /\ Ends(Report("plan init",
                        IF asked.raised = "KeyboardInterrupt" THEN "interrupt"
                        ELSE "exception",
                        asked.raised, <<>>, {}, typed))
         /\ UNCHANGED <<docs, now>>
    ELSE IF plan # <<>> /\ choice = 0
    THEN /\ Ends(Report("plan init", "True", "plan rendered", <<>>, {}, typed))
         /\ state_json' = <<load_state(state_json, repo_yaml)>>
         /\ UNCHANGED <<architecture, repo_yaml, step_yaml, copilot_output, baseline,
                        deviations, plan, artifacts, external_state,
                        now>>
    ELSE IF plan # <<>> /\ choice = 2
    THEN /\ Ends(Report("plan init", "False", "Cancelled.", <<>>, {}, typed))
         /\ UNCHANGED <<docs, now>>
    ELSE IF ~architecture \/ repo_yaml = <<>>
    THEN /\ Ends(Report("plan init", "False", "not found", <<>>, {}, typed))
         /\ UNCHANGED <<docs, now>>
    ELSE IF (baseline = <<>> \/ deviations = <<>>) /\ wizard.end = "cancel"
    THEN /\ Ends(Report("plan init", "False", "Cancelled.", <<>>, {}, typed))
         /\ UNCHANGED <<docs, now>>
    ELSE
    /\ UNCHANGED <<architecture, repo_yaml, step_yaml, state_json, copilot_output,
                   baseline, deviations, artifacts, external_state, now>>
    /\ IF wizard.end \in {"cancel", "failed"}
       THEN /\ Ends(Report("plan init", "False", wizard.end, <<>>, {}, typed))
            /\ UNCHANGED plan
       ELSE IF refined.raised # None
       THEN /\ Ends(Report("plan init", "exception", refined.raised, <<>>, {},
                           typed))
            /\ UNCHANGED plan
       ELSE IF refined.phases = <<>> \/ refined.phases[1] = <<>>
       THEN \* refine_phases has returned None, or no phase is left
            /\ Ends(Report("plan init", "False", "Planning cancelled.", <<>>, {},
                           typed))
            /\ UNCHANGED plan
       ELSE /\ Ends(Report("plan init", "True", "plan saved", <<>>, {}, typed))
            /\ plan' = <<BuildPlan(refined.phases[1])>>

\* the wizard runs when there is no plan or the human chose to regenerate;
\* a run that does not reach it is given one wizard only
PlanInit ==
    \/ \E wizard \in WizardEnds : cmd_plan_init(<<"2">>, wizard)
    \/ /\ plan # <<>>
       /\ \E keys \in {<<"1">>, <<"3">>} :
             cmd_plan_init(keys, [end |-> "cancel", layout |-> <<>>, refine |-> <<>>])

\* get_completed_steps(plan): the plan steps with completed set
get_completed_steps(phases) ==
    {pos \in Positions(phases) : phases[pos[1]][pos[2]].completed}

cmd_test(result) ==
    /\ UNCHANGED <<docs, now>>
    /\ IF plan = <<>>
       THEN Ends(Report("test", "False", "No implementation plan found", <<>>, {},
                        None))
       ELSE IF get_completed_steps(plan[1]) = {}
       THEN Ends(Report("test", "False", "No completed steps to test", <<>>, {}, None))
       ELSE Ends(Report("test", result, "tested", <<>>, {}, None))

Test == \E result \in {"True", "False"} : cmd_test(result)

cmd_snapshot(tree) ==
    /\ now < MaxClock
    /\ now' = now + 1
    /\ baseline' = <<capture_baseline_snapshot(tree, now + 1)>>
    /\ Ends(Report("snapshot", "True", "Baseline snapshot captured", <<>>, {}, tree))
    /\ UNCHANGED <<architecture, repo_yaml, step_yaml, state_json, copilot_output,
                   deviations, plan, artifacts, external_state>>

Snapshot == \E tree \in {{PathA}} : cmd_snapshot(tree)

\* sorted(current - baseline) of two sorted lists
Minus(current, old) == SelectIn(current, SeqToSet(current) \ SeqToSet(old))

RECURSIVE Listed(_)
\* the lists diff-baseline prints, each under its heading, in its order
Listed(headings) ==
    IF headings = <<>> THEN <<>>
    ELSE (IF Head(headings)[2] = <<>> THEN <<>>
          ELSE <<Msg(Head(headings)[1], Head(headings)[2], "", "")>>)
         \o Listed(Tail(headings))

cmd_diff_baseline(tree) ==
    /\ UNCHANGED <<docs, now>>
    /\ IF baseline = <<>>
       THEN Ends(Report("diff-baseline", "False", "No baseline snapshot found", <<>>,
                        {}, None))
       ELSE LET current       == capture_baseline_snapshot(tree, now)
                new_dirs      == Minus(current.directories, baseline[1].directories)
                removed_dirs  == Minus(baseline[1].directories, current.directories)
                new_files     == Minus(current.files, baseline[1].files)
                removed_files == Minus(baseline[1].files, current.files)
                has_changes   == new_dirs # <<>> \/ removed_dirs # <<>>
                                 \/ new_files # <<>> \/ removed_files # <<>>
            IN  IF ~has_changes
                THEN Ends(Report("diff-baseline", "True", "NO CHANGES DETECTED",
                                 <<>>, {}, tree))
                ELSE Ends(Report("diff-baseline", "True", "CHANGES DETECTED",
                                 Listed(<< <<"New files", new_files>>,
                                           <<"Removed files", removed_files>>,
                                           <<"New directories", new_dirs>>,
                                           <<"Removed directories", removed_dirs>> >>),
                                 {}, tree))

DiffBaseline == \E tree \in Trees : cmd_diff_baseline(tree)

\* what a --from path may name: nothing ("missing"), a file, a directory
\* without .wrapper, a .wrapper without state.json, a state.json that cannot
\* be read, that is not JSON, that is JSON but no mapping, or a ledger
PathKinds ==
    {"missing", "file", "no .wrapper", "no state.json", "unreadable",
     "invalid JSON", "not a dict", "ledger"}

\* the ledgers of other repositories; repo "" stands for a ledger without
\* a repo name
ExternalLedgers ==
    {[repo |-> "ui", done_steps |-> <<>>, invariants |-> <<>>,
      baseline_verified |-> "False"],
     [repo |-> "ui",
      done_steps |-> <<[step_id |-> "s1", result |-> "verification completed",
                        timestamp |-> 1]>>,
      invariants |-> <<"c1">>, baseline_verified |-> "True"],
     [repo |-> "", done_steps |-> <<>>, invariants |-> <<"c2">>,
      baseline_verified |-> "False"]}

NoLedger ==
    [repo |-> "", done_steps |-> <<>>, invariants |-> <<>>,
     baseline_verified |-> "False"]

\* a --from path: what it names, the name of its last component, the ledger
FromPath(kind, name, ledger) == [kind |-> kind, name |-> name, ledger |-> ledger]

\* f"{step_id}: {result}" for each entry of done_steps
StepSummaries(done_steps) ==
    [i \in 1..Len(done_steps) |->
        [step_id |-> done_steps[i].step_id, result |-> done_steps[i].result]]

\* extract_repo_state: the exception it raises (None when it returns) and
\* what it returns
extract_repo_state(repo_path) ==
    LET raises(e) == [raised |-> e, repo_name |-> "", done_steps |-> <<>>,
                      invariants |-> <<>>]
    IN
    CASE repo_path.kind = "missing"       -> raises("FileNotFoundError")
      [] repo_path.kind = "file"          -> raises("ValueError")
      [] repo_path.kind = "no .wrapper"   -> raises("ValueError")
      [] repo_path.kind = "no state.json" -> raises("ValueError")
      [] repo_path.kind = "unreadable"    -> raises("PermissionError")
      [] repo_path.kind = "invalid JSON"  -> raises("ValueError")
      [] repo_path.kind = "not a dict"    -> raises("ValueError")
      [] OTHER ->
           [raised     |-> None,
            repo_name  |-> IF repo_path.ledger.repo # "" THEN repo_path.ledger.repo
                           ELSE repo_path.name,
            done_steps |-> StepSummaries(repo_path.ledger.done_steps),
            invariants |-> repo_path.ledger.invariants]

\* external_state[repo_name] = {...}
SetItem(mapping, key, value) ==
    [k \in DOMAIN mapping \cup {key} |-> IF k = key THEN value ELSE mapping[k]]

\* the empty mapping
EmptyDict == [k \in {} |-> NoLedger]

RECURSIVE sync_loop(_, _, _)
\* the loop of cmd_sync_external over from_paths: the mapping and the error
\* list it has built, and the exception that ended it early (None when it
\* ran to its end)
sync_loop(paths, mapping, errors) ==
    IF paths = <<>> THEN [raised |-> None, external_state |-> mapping,
                          errors |-> errors]
    ELSE LET extracted == extract_repo_state(Head(paths))
         IN  IF extracted.raised = None
             THEN sync_loop(Tail(paths),
                            SetItem(mapping, extracted.repo_name,
                                    [done_steps |-> extracted.done_steps,
                                     invariants |-> extracted.invariants]),
                            errors)
             ELSE IF extracted.raised \in {"FileNotFoundError", "ValueError"}
             THEN sync_loop(Tail(paths), mapping,
                            Append(errors, Msg(extracted.raised,
                                               <<>>, Head(paths).name, "")))
             ELSE [raised |-> extracted.raised, external_state |-> mapping,
                   errors |-> errors]

cmd_sync_external(from_paths) ==
    LET loop == sync_loop(from_paths, EmptyDict, <<>>)
    IN
    /\ UNCHANGED <<architecture, repo_yaml, step_yaml, state_json, copilot_output,
                   baseline, deviations, plan, artifacts, now>>
    /\ IF from_paths = <<>>
       THEN /\ Ends(Report("sync-external", "False", "No --from paths provided",
                           <<>>, {}, from_paths))
            /\ UNCHANGED external_state
       ELSE IF loop.raised # None
       THEN \* neither except clause catches it: the command ends in main
            /\ Ends(Report("sync-external", "exception", loop.raised,
                           loop.errors, {}, from_paths))
            /\ UNCHANGED external_state
       ELSE IF DOMAIN loop.external_state = {}
       THEN /\ Ends(Report("sync-external", "False", "No valid repos found",
                           loop.errors, {}, from_paths))
            /\ UNCHANGED external_state
       ELSE /\ Ends(Report("sync-external", "True", "Written", loop.errors, {},
                           from_paths))
            /\ external_state' = <<loop.external_state>>

\* sync-external among the other commands, on paths that hold no ledger;
\* the paths that hold one are run in the specifications of sync-external
SyncExternal ==
    LET missing == FromPath("missing", "gone", NoLedger)
        file    == FromPath("file", "gone", NoLedger)
    IN  cmd_sync_external(<<missing, file>>)

----------------------------------------------------------------------------
(* What the human does between commands *)

\* the human fills in or empties the transcript file
PasteOutput ==
    /\ copilot_output # <<>>
    /\ copilot_output' = <<PastedOutput>>
    /\ Ends(Report("human", "True", "transcript edited", <<>>, {}, None))
    /\ UNCHANGED <<architecture, repo_yaml, step_yaml, state_json, baseline,
                   deviations, plan, artifacts, external_state, now>>

----------------------------------------------------------------------------
(* The specification: an empty working directory, then any commands *)

Init ==
    /\ architecture = FALSE
    /\ repo_yaml = <<>>
    /\ step_yaml = <<>>
    /\ state_json = <<>>
    /\ copilot_output = <<>>
    /\ baseline = <<>>
    /\ deviations = <<>>
    /\ plan = <<>>
    /\ artifacts = {}
    /\ external_state = <<>>
    /\ now = 0
    /\ last = Report("none", "True", "", <<>>, {}, None)
    /\ running = NoneRunning

Next ==
    \/ CmdInit
    \/ Propose
    \/ Compile
    \/ Verify
    \/ Accept
    \/ PlanInit
    \/ PlanStatus
    \/ PlanShow
    \/ Test
    \/ Snapshot
    \/ DiffBaseline
    \/ SyncExternal
    \/ PasteOutput

Spec == Init /\ [][Next]_vars

----------------------------------------------------------------------------
(* The checks of verify on their own: an initialised working directory     *)
(* with a proposed step, then verify runs on every input                   *)

InitVerify ==
    /\ architecture = TRUE
    /\ repo_yaml = <<REPO_YAML_TEMPLATE>>
    /\ step_yaml \in {<<s>> : s \in StepsAny}
    /\ state_json = <<create_default_state(<<REPO_YAML_TEMPLATE>>)>>
    /\ copilot_output \in {<<>>, <<TemplateOutput>>}
    /\ artifacts = IF copilot_output = <<>> THEN {}
                   ELSE {"copilot_prompt.txt", "verify.md"}
    /\ baseline = <<>>
    /\ deviations = <<>>
    /\ plan = <<>>
    /\ external_state = <<>>
    /\ now = 0
    /\ last = Report("none", "True", "", <<>>, {}, None)
    /\ running = NoneRunning

NextVerify ==
    \/ VerifyAny
    \/ PasteOutput

SpecVerify == InitVerify /\ [][NextVerify]_vars

----------------------------------------------------------------------------
(* sync-external on its own: an initialised working directory, then        *)
(* sync-external runs on every list of --from paths                        *)

\* the longest list of --from paths
MaxPaths == 2

\* the paths a list is made of
FromPathsAny ==
    {FromPath(k, "gone", NoLedger) : k \in PathKinds \ {"ledger"}}
    \cup {FromPath("ledger", n, l) : n \in {"ui", "llm"}, l \in ExternalLedgers}

\* the non-empty lists of at most MaxPaths paths (argparse requires --from)
FromPathLists ==
    UNION {[1..n -> FromPathsAny] : n \in 1..MaxPaths}

SyncExternalAny == \E from_paths \in FromPathLists : cmd_sync_external(from_paths)

InitSync ==
    /\ architecture = TRUE
    /\ repo_yaml = <<REPO_YAML_TEMPLATE>>
    /\ step_yaml = <<>>
    /\ state_json = <<>>
    /\ copilot_output = <<>>
    /\ artifacts = {}
    /\ baseline = <<>>
    /\ deviations = <<>>
    /\ plan = <<>>
    /\ external_state = <<>>
    /\ now = 0
    /\ last = Report("none", "True", "", <<>>, {}, None)
    /\ running = NoneRunning

NextSync == SyncExternalAny

SpecSync == InitSync /\ [][NextSync]_vars

----------------------------------------------------------------------------
(* Properties.  An action formula speaks about one command: the unprimed   *)
(* values are the state directory before it, the primed ones after it, and *)
(* last' is what it was given and what it reported.                        *)

\* the step ids of the done_steps entries
DoneStepIds == {DoneSteps[i].step_id : i \in 1..Len(DoneSteps)}

\* the command that ran was an accept that found a Step Definition
AcceptRan == last'.cmd = "accept" /\ step_yaml # <<>>

\* the gate conditions, read from the ledger before the command
GateHolds ==
    /\ step_yaml # <<>>
    /\ LastVerifyStatus = "PASS"
    /\ LastVerifyStep = step_yaml[1].step_id

\* the answers that strip and lower-case to 'y'
YesAnswers == {"y", " Y "}

\* done_steps gained exactly one entry, for the current step id
OneEntryAppended ==
    /\ Len(DoneSteps') = Len(DoneSteps) + 1
    /\ SubSeq(DoneSteps', 1, Len(DoneSteps)) = DoneSteps
    /\ DoneSteps'[Len(DoneSteps')].step_id = step_yaml[1].step_id
    /\ DoneSteps'[Len(DoneSteps')].timestamp = now'

(* C1: an accept that finds last_verify_status other than PASS, or          *)
(* last_verify_step other than the current step id, returns failure with    *)
(* the ACCEPT BLOCKED banner and leaves done_steps, invariants, the         *)
(* Deviations document and the plan as they were; and done_steps changes    *)
(* only in a step taken from a state where both gate conditions hold.       *)
C1_AcceptGate ==
    [][/\ (AcceptRan /\ ~GateHolds) =>
            /\ last'.ret = "False"
            /\ last'.out = "ACCEPT BLOCKED"
            /\ DoneSteps' = DoneSteps
            /\ Invariants' = Invariants
            /\ deviations' = deviations
            /\ plan' = plan
       /\ (DoneSteps' # DoneSteps) => (last'.cmd = "accept" /\ GateHolds)]_vars

\* an accept was blocked although the last verify run recorded PASS (for
\* another step id)
C1_Witness ==
    /\ last.cmd = "accept"
    /\ last.out = "ACCEPT BLOCKED"
    /\ step_yaml # <<>>
    /\ LastVerifyStatus = "PASS"
    /\ LastVerifyStep # step_yaml[1].step_id

(* C2, as stated: whenever the gate conditions hold, accept returns true    *)
(* and done_steps gains exactly one entry.                                  *)
C2_AsStated ==
    [][(AcceptRan /\ GateHolds) => (last'.ret = "True" /\ OneEntryAppended)]_vars

(* C2, amended: whenever the gate conditions hold and the step id is not in *)
(* done_steps, or is and the human answers 'y' at the prompt, done_steps    *)
(* gains exactly one entry for the step; accept then returns true, except   *)
(* that with a plan present it may end in an error (the changed-file query  *)
(* fails, or the notes prompt is interrupted) after the entry was written   *)
(* and with the plan untouched.  Without the 'y' nothing is appended and    *)
(* accept does not return true.                                             *)
C2_AcceptSucceeds ==
    [][(AcceptRan /\ GateHolds) =>
         IF step_yaml[1].step_id \notin DoneStepIds \/ last'.answer \in YesAnswers
         THEN /\ OneEntryAppended
              /\ \/ last'.ret = "True"
                 \/ /\ plan # <<>>
                    /\ plan' = plan
                    /\ last'.ret \in {"exception", "interrupt"}
         ELSE /\ DoneSteps' = DoneSteps
              /\ last'.ret # "True"]_vars

\* a confirmed re-accept has appended a second entry for the same step id
C2_Witness ==
    /\ last.cmd = "accept"
    /\ last.ret = "True"
    /\ last.answer = "y"
    /\ Len(DoneSteps) = 2
    /\ DoneSteps[1].step_id = DoneSteps[2].step_id

(* C5, as stated: the invariants list never holds a string twice.           *)
C5_NoStringTwice == NoDuplicates(Invariants)

----------------------------------------------------------------------------
(* Properties of verify *)

\* the command that ran was a verify that found a Step Definition
VerifyRan == last'.cmd = "verify" /\ step_yaml # <<>>

\* the run printed one of the two verdict banners
ReachedVerdict == last'.out \in {"VERIFICATION PASSED", "VERIFICATION FAILED"}

\* the changed paths the run was given that lie outside the state directory
ChangedCode == {f \in last'.changed : f[1] # WRAPPER_DIR}

\* the changed paths outside the state directory that are not allowed
Disallowed == ChangedCode \ SeqToSet(step_yaml[1].allowed_files)

\* the errors of the run that come from the allowed-files check
AllowedFilesErrors ==
    {i \in 1..Len(last'.errors) :
        last'.errors[i].kind \in {"Modified files not in allowed list",
                                  "No files should be modified"}}

\* the run returned success exactly when it reached its verdict without an
\* error, and then it recorded PASS for the current step id
PassIffNoError ==
    /\ (last'.ret = "True") <=> (ReachedVerdict /\ last'.errors = <<>>)
    /\ (last'.ret = "True") =>
          /\ LastVerifyStatus' = "PASS"
          /\ LastVerifyStep' = step_yaml[1].step_id

\* the run did not return success, and recorded FAIL if it reached its verdict
FailsAndRecords ==
    /\ last'.ret # "True"
    /\ ReachedVerdict =>
          /\ LastVerifyStatus' = "FAIL"
          /\ LastVerifyStep' = step_yaml[1].step_id

\* the three verdict fields of the ledger are as they were
VerdictFieldsUnchanged ==
    /\ LastVerifyStatus' = LastVerifyStatus
    /\ LastVerifyStep' = LastVerifyStep
    /\ LastVerifyTimestamp' = LastVerifyTimestamp

(* C3, as stated: with non-empty allowed_files, a run that reaches its      *)
(* verdict records FAIL if a changed path outside the state directory is    *)
(* not allowed, and records PASS if every such path is allowed.             *)
C3_AsStated ==
    [][(VerifyRan /\ step_yaml[1].allowed_files # <<>> /\ ReachedVerdict) =>
         /\ (Disallowed # {}) => (LastVerifyStatus' = "FAIL")
         /\ (Disallowed = {}) => (LastVerifyStatus' = "PASS")]_vars

(* C3, amended: with non-empty allowed_files, a run given a changed path    *)
(* outside the state directory that is not allowed lists the error naming   *)
(* the paths, does not return success and, when it reaches its verdict,     *)
(* records FAIL; a run whose changed paths outside the state directory are  *)
(* all allowed gets no error from the allowed-files check, and returns      *)
(* success and records PASS exactly when it reaches its verdict with no     *)
(* other error (forbidden pattern, VERDICT: FAIL of the model).             *)
C3_AllowedFiles ==
    [][(VerifyRan /\ step_yaml[1].allowed_files # <<>>) =>
         /\ (Disallowed # {}) =>
               /\ FailsAndRecords
               /\ \E i \in 1..Len(last'.errors) :
                      last'.errors[i] = Msg("Modified files not in allowed list",
                                            SortedSeq(Disallowed), "", "")
         /\ (Disallowed = {}) =>
               /\ AllowedFilesErrors = {}
               /\ PassIffNoError]_vars

\* a run was given an allowed and a disallowed path and has recorded FAIL
C3_Witness ==
    /\ last.cmd = "verify"
    /\ last.out = "VERIFICATION FAILED"
    /\ last.changed = {PathA, PathB}
    /\ step_yaml[1].allowed_files = <<PathA>>
    /\ LastVerifyStatus = "FAIL"

(* C4, as stated: with empty allowed_files, a run that reaches its verdict  *)
(* records FAIL if and only if a path outside the state directory changed.  *)
C4_AsStated ==
    [][(VerifyRan /\ step_yaml[1].allowed_files = <<>> /\ ReachedVerdict) =>
         ((LastVerifyStatus' = "FAIL") <=> (ChangedCode # {}))]_vars

(* C4, amended: with empty allowed_files, a run given a changed path        *)
(* outside the state directory lists the error naming the paths, does not   *)
(* return success and, when it reaches its verdict, records FAIL; a run     *)
(* given changes in the state directory only, or none, gets no error from   *)
(* the allowed-files check, and returns success exactly when it reaches its *)
(* verdict with no other error (forbidden pattern, VERDICT: FAIL of the     *)
(* model).                                                                  *)
C4_NoFilesAllowed ==
    [][(VerifyRan /\ step_yaml[1].allowed_files = <<>>) =>
         /\ (ChangedCode # {}) =>
               /\ FailsAndRecords
               /\ \E i \in 1..Len(last'.errors) :
                      last'.errors[i] = Msg("No files should be modified",
                                            SortedSeq(ChangedCode), "", "")
         /\ (ChangedCode = {}) =>
               /\ AllowedFilesErrors = {}
               /\ PassIffNoError]_vars

\* a run was given a change in the state directory only and has passed
C4_Witness ==
    /\ last.cmd = "verify"
    /\ last.out = "VERIFICATION PASSED"
    /\ last.changed = {PathState}
    /\ step_yaml[1].allowed_files = <<>>
    /\ LastVerifyStatus = "PASS"

(* C6, as stated: a verify run in a git repository that finds a Step        *)
(* Definition and returns (blocked runs included) leaves last_verify_status *)
(* PASS or FAIL, last_verify_step the current step id and a newer           *)
(* last_verify_timestamp.                                                   *)
C6_AsStated ==
    [][(VerifyRan /\ last'.ret \in {"True", "False"}
        /\ last'.out # "Not in a git repository") =>
         /\ LastVerifyStatus' \in {"PASS", "FAIL"}
         /\ LastVerifyStep' = step_yaml[1].step_id
         /\ LastVerifyTimestamp' > LastVerifyTimestamp]_vars

(* C6, amended: a verify run that reaches its verdict overwrites            *)
(* last_verify_status with PASS or FAIL as printed, last_verify_step with   *)
(* the current step id and last_verify_timestamp with the time of the run;  *)
(* every other verify run (no git repository, no Step Definition, missing   *)
(* transcript, failing git diff, exception of the model call) leaves the    *)
(* three fields as an earlier run recorded them.                            *)
C6_VerdictOverwrites ==
    [][(last'.cmd = "verify") =>
         IF ReachedVerdict
         THEN /\ step_yaml # <<>>
              /\ LastVerifyStatus' =
                    (IF last'.out = "VERIFICATION PASSED" THEN "PASS" ELSE "FAIL")
              /\ LastVerifyStep' = step_yaml[1].step_id
              /\ LastVerifyTimestamp' = now'
              /\ LastVerifyTimestamp' > LastVerifyTimestamp
         ELSE VerdictFieldsUnchanged]_vars

\* a run was blocked for the missing transcript and the PASS of an earlier
\* run for the same step id is still in the ledger
C6_Witness ==
    /\ last.cmd = "verify"
    /\ last.out = "COPILOT OUTPUT REQUIRED"
    /\ LastVerifyStatus = "PASS"
    /\ LastVerifyStep = step_yaml[1].step_id

\* a verify run in a git repository with a HEAD, for a verification-type
\* step, given no change, that returned
NoChangeVerify ==
    /\ VerifyRan
    /\ step_yaml[1].type = "verification"
    /\ last'.changed = {}
    /\ last'.ret \in {"True", "False"}
    /\ last'.out # "Not in a git repository"

DetectedDisallowed(report) ==
    /\ report.cmd = "verify"
    /\ \E i \in 1..Len(report.errors) :
          report.errors[i].kind = "Modified files not in allowed list"

(* C8, as stated: a verify run that finds a changed file outside            *)
(* allowed_files leaves last_verify_status FAIL, and the accept that        *)
(* follows it is refused with ACCEPT BLOCKED.                               *)
C8_AsStated ==
    [][/\ DetectedDisallowed(last') => (LastVerifyStatus' = "FAIL")
       /\ (DetectedDisallowed(last) /\ last'.cmd = "accept") =>
            (last'.out = "ACCEPT BLOCKED")]_vars

----------------------------------------------------------------------------
(* Failures of the model call in verify *)

\* the verify run got as far as the model call: it found a repository, a
\* Step Definition, the diff and something to analyse
ReachedModelCall ==
    /\ VerifyRan
    /\ last'.out \notin {"Not in a git repository", "Git command failed",
                         "COPILOT OUTPUT REQUIRED"}

(* C11, as stated: a verify run that gets as far as the model call reaches  *)
(* its verdict, whatever way the model call ends, and records               *)
(* last_verify_status for the current step id.                              *)
C11_AsStated ==
    [][ReachedModelCall =>
         /\ ReachedVerdict
         /\ LastVerifyStatus' \in {"PASS", "FAIL"}
         /\ LastVerifyStep' = step_yaml[1].step_id
         /\ LastVerifyTimestamp' = now']_vars

----------------------------------------------------------------------------
(* Properties of sync-external *)

\* the positions of the list whose path names a repository with a ledger
ValidAt(from_paths) == {i \in 1..Len(from_paths) : from_paths[i].kind = "ledger"}

\* the name a ledger is synced under
SyncedName(repo_path) ==
    IF repo_path.ledger.repo # "" THEN repo_path.ledger.repo ELSE repo_path.name

\* the mapping of the paths that succeeded; of two paths with one name the
\* later one counts
SyncedMapping(from_paths) ==
    [n \in {SyncedName(from_paths[i]) : i \in ValidAt(from_paths)} |->
        LET i == CHOOSE i \in ValidAt(from_paths) :
                    /\ SyncedName(from_paths[i]) = n
                    /\ \A j \in ValidAt(from_paths) :
                          SyncedName(from_paths[j]) = n => j <= i
        IN  [done_steps |-> StepSummaries(from_paths[i].ledger.done_steps),
             invariants |-> from_paths[i].ledger.invariants]]

(* C12, as stated: a sync-external run is never aborted and lists one       *)
(* warning for each path that could not be read; with a path that could,    *)
(* it returns true and the External State document is the mapping of the    *)
(* paths that could; with none, it returns false and the document is as it  *)
(* was.                                                                     *)
C12_AsStated ==
    [][(last'.cmd = "sync-external") =>
         LET from_paths == last'.answer
         IN  /\ last'.ret \in {"True", "False"}
             /\ Len(last'.errors) = Len(from_paths) - Cardinality(ValidAt(from_paths))
             /\ IF ValidAt(from_paths) # {}
                THEN /\ last'.ret = "True"
                     /\ external_state' = <<SyncedMapping(from_paths)>>
                ELSE /\ last'.ret = "False"
                     /\ external_state' = external_state]_vars

----------------------------------------------------------------------------
(* The choice of the text-generation backend *)

\* the vendors, in the order of the auto-detection
Vendors == <<"deepseek", "openai", "anthropic">>

\* a value Python takes for true: neither None nor the empty string
Truthy(x) == x \notin {None, ""}

\* os.environ: LLM_PROVIDER and the three *_API_KEY variables (None: unset)
Environments ==
    [provider : {None, "", "openai", "anthropic", "OpenAI"},
     keys     : [SeqToSet(Vendors) -> {None, "", "env-key"}]]

\* .wrapper/config.yaml: llm_provider and the three *_api_key fields (None:
\* the field is missing)
Configs ==
    [provider : {None, "deepseek", "openai", "anthropic"},
     keys     : [SeqToSet(Vendors) -> {None, "cfg-key"}]]

\* the credential of a vendor: the environment's when set, else the file's
api_key(env, config, vendor) ==
    IF Truthy(env.keys[vendor]) THEN env.keys[vendor] ELSE config.keys[vendor]

\* a variant that takes the first vendor with a credential
get_llm_client_by_key(env, config) ==
    LET found == {i \in 1..Len(Vendors) : Truthy(api_key(env, config, Vendors[i]))}
    IN  IF found = {} THEN [backend |-> "RuntimeError", api_key |-> None]
        ELSE LET i == CHOOSE i \in found : \A j \in found : i <= j
             IN  [backend |-> Vendors[i], api_key |-> api_key(env, config, Vendors[i])]

\* get_llm_client: the backend it constructs and the credential it gives
\* it, or the RuntimeError it raises
get_llm_client(env, config) ==
    LET deepseek_key  == api_key(env, config, "deepseek")
        openai_key    == api_key(env, config, "openai")
        anthropic_key == api_key(env, config, "anthropic")
        provider      == IF Truthy(env.provider) THEN env.provider
                         ELSE IF config.provider = None THEN "deepseek"
                         ELSE config.provider
        client(v, k)  == [backend |-> v, api_key |-> k]
    IN
    IF provider = "deepseek" /\ Truthy(deepseek_key)
    THEN client("deepseek", deepseek_key)
    ELSE IF provider = "openai" /\ Truthy(openai_key)
    THEN client("openai", openai_key)
    ELSE IF provider = "anthropic" /\ Truthy(anthropic_key)
    THEN client("anthropic", anthropic_key)
    ELSE IF Truthy(deepseek_key) THEN client("deepseek", deepseek_key)
    ELSE IF Truthy(openai_key) THEN client("openai", openai_key)
    ELSE IF Truthy(anthropic_key) THEN client("anthropic", anthropic_key)
    ELSE [backend |-> "RuntimeError", api_key |-> None]

\* the one construction of the client in a process; the report holds the
\* backend, its credential and what the construction was given
GetLLMClient ==
    /\ last.cmd = "none"
    /\ \E env \in Environments, config \in Configs :
        LET llm == get_llm_client(env, config)
        IN  /\ Ends(Report("get_llm_client", llm.backend, llm.api_key, <<>>, {},
                           [env |-> env, config |-> config]))
            /\ UNCHANGED <<docs, now>>

NextLLM == GetLLMClient

SpecLLM == InitSync /\ [][NextLLM]_vars

\* the vendors that have a credential in the environment or in the file
WithCredential(in) ==
    {v \in SeqToSet(Vendors) :
        \/ in.env.keys[v] \notin {None, ""}
        \/ in.config.keys[v] # None}

\* the credential a backend of the vendor is to be given
CredentialOf(in, v) ==
    IF in.env.keys[v] \notin {None, ""} THEN in.env.keys[v] ELSE in.config.keys[v]

\* the first vendor of the auto-detection order that has a credential
FirstWithCredential(in) ==
    Vendors[CHOOSE i \in 1..Len(Vendors) :
               /\ Vendors[i] \in WithCredential(in)
               /\ \A j \in 1..(i - 1) : Vendors[j] \notin WithCredential(in)]

\* the environment names a provider
EnvNames(in) == in.env.provider \notin {None, ""}

(* C13, as stated: the backend is the environment's provider when it has a  *)
(* credential, else the config file's provider when it has one, else the    *)
(* first vendor with a credential; the error is raised if and only if no    *)
(* vendor has a credential.                                                 *)
C13_AsStated ==
    [][(last'.cmd = "get_llm_client") =>
         LET in == last'.answer
         IN  last'.ret =
               (IF EnvNames(in) /\ in.env.provider \in WithCredential(in)
                THEN in.env.provider
                ELSE IF in.config.provider \in WithCredential(in)
                THEN in.config.provider
                ELSE IF WithCredential(in) # {} THEN FirstWithCredential(in)
                ELSE "RuntimeError")]_vars

(* C13, amended: one provider is named, by the environment variable when it *)
(* is set and not empty, else by the config file; the backend is the named  *)
(* provider when that vendor has a credential, and otherwise (nothing       *)
(* named, an unknown name, a named vendor without a credential) the first   *)
(* of deepseek, openai, anthropic that has one.  A vendor's credential is   *)
(* the environment's when set and not empty, else the config file's, and    *)
(* the backend is given its vendor's credential.  The error is raised if    *)
(* and only if no vendor has a credential.                                  *)
C13_BackendSelection ==
    [][(last'.cmd = "get_llm_client") =>
         LET in    == last'.answer
             named == IF EnvNames(in) THEN in.env.provider ELSE in.config.provider
         IN  /\ (last'.ret = "RuntimeError") <=> (WithCredential(in) = {})
             /\ (WithCredential(in) # {}) =>
                   /\ last'.ret = (IF named \in WithCredential(in) THEN named
                                   ELSE FirstWithCredential(in))
                   /\ last'.out = CredentialOf(in, last'.ret)]_vars

\* the environment names anthropic, which has a credential in the config
\* file only, while deepseek has one in the environment: anthropic is built
C13_Witness ==
    /\ last.cmd = "get_llm_client"
    /\ last.answer.env.provider = "anthropic"
    /\ last.answer.env.keys["deepseek"] = "env-key"
    /\ last.answer.env.keys["anthropic"] = ""
    /\ last.ret = "anthropic"
    /\ last.out = "cfg-key"

----------------------------------------------------------------------------
(* propose on its own: a working directory before or after init, with or   *)
(* without a Step Definition and a verified ledger, then propose runs on   *)
(* every input                                                             *)

\* the ledger after a first verify run that passed for step s1 at time 1
VerifiedLedger ==
    record_verdict([create_default_state(<<REPO_YAML_TEMPLATE>>)
                       EXCEPT !.baseline_snapshot_timestamp = 1,
                              !.baseline_verified = "False"],
                   "PASS", [step_id |-> "s1"], 1)

ProposeInputsAny ==
    [ans : {"y", " Y ", "n", "", Interrupt}, llm : ProposeAnswers,
     again : {SecondAnswer}]

ProposeAny == \E in \in ProposeInputsAny : cmd_propose(in)

InitPropose ==
    /\ architecture \in BOOLEAN
    /\ repo_yaml \in {<<>>, <<REPO_YAML_TEMPLATE>>}
    /\ step_yaml \in {<<>>} \cup {<<s>> : s \in Steps}
    /\ state_json \in {<<>>, <<VerifiedLedger>>}
    /\ baseline = IF state_json = <<>> THEN <<>>
                  ELSE <<capture_baseline_snapshot({PathA}, 1)>>
    /\ deviations = IF state_json = <<>> THEN <<>> ELSE << <<>> >>
    /\ copilot_output = <<>>
    /\ artifacts = {}
    /\ plan = <<>>
    /\ external_state = <<>>
    /\ now = IF state_json = <<>> THEN 0 ELSE 1
    /\ last = Report("none", "True", "", <<>>, {}, None)
    /\ running = NoneRunning

NextPropose == ProposeAny

SpecPropose == InitPropose /\ [][NextPropose]_vars

\* the propose run found the Architecture Document and the Repo Constraints
ProposeRan == last'.cmd = "propose" /\ architecture /\ repo_yaml # <<>>

\* the overwrite prompt, when there is one, was answered 'y'
OverwriteConfirmed == step_yaml = <<>> \/ last'.answer.ans \in YesAnswers

\* the response is a step mapping with step_id, fence lines or not
IsStepMapping(response) == response.kind = "mapping"

\* the three verdict fields read from a ledger file that may be absent
VerdictFields(file) ==
    IF file = <<>> THEN <<None, None, 0>>
    ELSE <<file[1].last_verify_status, file[1].last_verify_step,
           file[1].last_verify_timestamp>>

(* C14: a propose run writes the Step Definition, as the body of the        *)
(* model's first response without its fence lines, exactly when it finds    *)
(* the two input documents, the overwrite prompt (if any) is answered 'y'   *)
(* and the first response is a mapping with step_id, and then returns true; *)
(* every other run (input document missing, overwrite declined or           *)
(* interrupted, no credential, failing model call, response that does not   *)
(* parse or has no step_id) ends in failure and leaves the Step Definition  *)
(* as it was, whatever a second call of the model would have answered; and  *)
(* no run changes the three last_verify_* fields.                           *)
C14_ProposeWritesValidOnly ==
    [][(last'.cmd = "propose") =>
         /\ VerdictFields(state_json') = VerdictFields(state_json)
         /\ IF ProposeRan /\ OverwriteConfirmed /\ IsStepMapping(last'.answer.llm)
            THEN /\ last'.ret = "True"
                 /\ step_yaml' = <<last'.answer.llm.body>>
            ELSE /\ last'.ret \in {"False", "exception", "interrupt"}
                 /\ (last'.ret = "exception") =>
                        (ProposeRan /\ last'.answer.llm.kind = "Exception")
                 /\ (last'.ret = "interrupt") =>
                        (ProposeRan /\ last'.answer.ans = Interrupt)
                 /\ step_yaml' = step_yaml]_vars

\* a run whose response was a mapping without step_id has failed and the
\* Step Definition and the PASS of the ledger are still there
C14_Witness ==
    /\ last.cmd = "propose"
    /\ last.out = "LLM returned invalid YAML"
    /\ last.answer.llm.kind = "mapping without step_id"
    /\ step_yaml # <<>>
    /\ LastVerifyStatus = "PASS"

----------------------------------------------------------------------------
(* accept on its own: a working directory whose last verify run passed,    *)
(* with or without an Implementation Plan, then accept runs on every input *)

\* the plans at accept time: the step ids of each phase
PlanLayoutsAny ==
    {<< <<"s1">>, <<"s1">> >>,
     << <<"s2", "s1">> >>,
     << <<"s3">>, <<"s2", "s3">> >>,
     << <<"s3">> >>}

AcceptInputsAny ==
    [ans : {"y", "n"}, llm : {"no credential"}, git : {"ok", "no repo"},
     changed : {{}, {PathA, PathState}}, notes : {"", "done by hand", Interrupt}]

AcceptAny == \E in \in AcceptInputsAny : cmd_accept(in)

InitAccept ==
    /\ architecture = TRUE
    /\ repo_yaml = <<REPO_YAML_TEMPLATE>>
    /\ step_yaml \in {<<s>> : s \in Steps}
    /\ state_json \in {<<[VerifiedLedger EXCEPT !.last_verify_step = id]>> :
                          id \in {"s1", "s2"}}
    /\ baseline = <<capture_baseline_snapshot({PathA}, 1)>>
    /\ deviations = << <<>> >>
    /\ copilot_output = <<PastedOutput>>
    /\ artifacts = {"copilot_prompt.txt", "verify.md"}
    /\ plan \in {<<>>} \cup {<<BuildPlan(l)>> : l \in PlanLayoutsAny}
    /\ external_state = <<>>
    /\ now = 1
    /\ last = Report("none", "True", "", <<>>, {}, None)
    /\ running = NoneRunning

NextAccept == AcceptAny

SpecAccept == InitAccept /\ [][NextAccept]_vars

\* the accept found a plan and went past the gate and the re-accept prompt:
\* it has written its done_steps entry
AcceptedWithPlan ==
    /\ last'.cmd = "accept"
    /\ plan # <<>>
    /\ Len(DoneSteps') > Len(DoneSteps)

\* the plan steps with the id of the current Step Definition
Matches ==
    {pos \in Positions(plan[1]) :
        plan[1][pos[1]][pos[2]].step_id = step_yaml[1].step_id}

\* pos comes before q in the search across the phases
Before(pos, q) == pos[1] < q[1] \/ (pos[1] = q[1] /\ pos[2] < q[2])

\* the plan has its layout of before and its steps outside S are as before
SameOutside(S) ==
    /\ plan' # <<>>
    /\ Len(plan'[1]) = Len(plan[1])
    /\ \A i \in 1..Len(plan[1]) : Len(plan'[1][i]) = Len(plan[1][i])
    /\ \A pos \in Positions(plan[1]) \ S :
          plan'[1][pos[1]][pos[2]] = plan[1][pos[1]][pos[2]]

----------------------------------------------------------------------------
(* Properties of plan status and plan show *)

(* C16, as stated: plan status and plan show create, modify or delete no    *)
(* document of the state directory.                                         *)
C16_AsStated ==
    [][(last'.cmd \in {"plan status", "plan show"}) => UNCHANGED docs]_vars


\* ---------------------------------------------------------------------
\* plan init at its menu: every short sequence of keys typed at the
\* "Your choice" prompt of an existing plan, on an initialised directory
\* ---------------------------------------------------------------------

\* the longest sequence of keys typed at one menu
MaxKeys == 2

TypedKeys == {Interrupt, "1", "2", "3", "x"}

KeyLists == UNION {[1..n -> TypedKeys] : n \in 1..MaxKeys}

WizardEndsAny ==
    [end : {"cancel", "failed"}, layout : {<<>>}, refine : {<<>>}]
    \cup [end : {"built"}, layout : PlanLayoutsAny, refine : {<<Continue>>}]

\* the longest sequence of entries picked at the menu of refine_phases
MaxPicks == 2

\* continue, split, remove (declined or confirmed), regenerate (declined
\* or confirmed), cancel
Picks ==
    {Continue, Pick(3, FALSE), Pick(4, FALSE), Pick(4, TRUE), Pick(5, FALSE),
     Pick(5, TRUE), Pick(6, FALSE)}

\* the wizard gets as far as the menu of refine_phases, with two phases
WizardRefines ==
    [end : {"built"}, layout : {l \in PlanLayoutsAny : Len(l) = 2},
     refine : UNION {[1..n -> Picks] : n \in 1..MaxPicks}]

PlanInitAny ==
    \/ \E keys \in KeyLists, wizard \in WizardEndsAny : cmd_plan_init(keys, wizard)
    \/ \E wizard \in WizardRefines : cmd_plan_init(<<"2">>, wizard)

InitPlan ==
    /\ architecture = TRUE
    /\ repo_yaml = <<REPO_YAML_TEMPLATE>>
    /\ step_yaml = <<>>
    /\ state_json \in {<<>>, <<VerifiedLedger>>}
    /\ baseline = <<capture_baseline_snapshot({PathA}, 1)>>
    /\ deviations = << <<>> >>
    /\ copilot_output = <<>>
    /\ artifacts = {}
    /\ plan \in {<<>>} \cup {<<BuildPlan(l)>> : l \in PlanLayoutsAny}
    /\ external_state = <<>>
    /\ now = 1
    /\ last = Report("none", "True", "", <<>>, {}, None)
    /\ running = NoneRunning

NextPlan == PlanInitAny

SpecPlan == InitPlan /\ [][NextPlan]_vars

\* C17: a keyboard interrupt at the menu of plan init ends the command:
\* the run is reported as interrupted and the plan is left as it was
C17_AsStated ==
    [][(/\ last'.cmd = "plan init"
        /\ plan # <<>>
        /\ Head(last'.answer.keys) = Interrupt)
       => (last'.ret = "interrupt" /\ UNCHANGED docs)]_vars


\* ---------------------------------------------------------------------
\* the auto-capture of verify
\* ---------------------------------------------------------------------

\* a verify run got as far as the auto-capture stage
ReachedCapture ==
    /\ last'.cmd = "verify"
    /\ last'.out \notin {"Not in a git repository", "step.yaml not found"}

\* the ledger has zero done steps (an absent ledger is the default one) and
\* no baseline is stored
FirstAndNoBaseline ==
    /\ state_json = <<>> \/ Len(state_json[1].done_steps) = 0
    /\ baseline = <<>>

\* C18: across every command sequence, a verify run stores a baseline
\* exactly when it reaches the capture stage with zero done steps in the
\* ledger and no baseline stored, so it never replaces a stored baseline;
\* a run that captures also stores a Deviations document and the
\* baseline timestamp in the ledger, the document holds the empty list when
\* the model call fails or its answer does not parse, and the run goes on:
\* it ends in an exception only at the git diff or at the analysis call
C18_AutoCapture ==
    [][last'.cmd = "verify" =>
         IF ReachedCapture /\ FirstAndNoBaseline
         THEN /\ baseline' # <<>>
              /\ deviations' # <<>>
              /\ state_json' # <<>>
              /\ state_json'[1].baseline_snapshot_timestamp = baseline'[1].timestamp
              /\ last'.answer.llm_dev \in LLMFailures \cup {"prose"} =>
                     deviations' = << <<>> >>
              /\ (last'.answer.llm_dev \in LLMFailures /\ last'.ret = "exception") =>
                     last'.out \in {"Git command failed", "Exception"}
         ELSE /\ baseline' = baseline
              /\ deviations' = deviations]_vars

\* a verify has captured the baseline, the deviations call has failed, the
\* empty Deviations document is stored and the run has gone on to a verdict
C18_Witness ==
    /\ last.cmd = "verify"
    /\ last.out = "VERIFICATION PASSED"
    /\ last.answer.llm_dev \in LLMFailures
    /\ baseline # <<>>
    /\ deviations = << <<>> >>


\* ---------------------------------------------------------------------
\* the baseline on its own: an initialised directory with a proposed step;
\* snapshot, verify and diff-baseline run on every tree
\* ---------------------------------------------------------------------

\* the working trees: every set of files of the model
TreesAny == SUBSET {PathA, PathSrc, PathPyc, PathMod, PathSnapshot}

SnapshotAny == \E tree \in TreesAny : cmd_snapshot(tree)

\* a verify run that passes, on every tree
VerifyOnTree ==
    /\ now < MaxClock
    /\ \E tree \in TreesAny :
         cmd_verify([git |-> "ok", changed |-> {}, diff |-> {}, head_dirs |-> {},
                     tree |-> tree, llm_dev |-> "prose", llm |-> "looks fine"])

DiffBaselineAny == \E tree \in TreesAny : cmd_diff_baseline(tree)

InitBaseline ==
    /\ architecture = TRUE
    /\ repo_yaml = <<REPO_YAML_TEMPLATE>>
    /\ step_yaml = <<CHOOSE s \in Steps : s.type = "verification">>
    /\ state_json = <<create_default_state(<<REPO_YAML_TEMPLATE>>)>>
    /\ copilot_output = <<PastedOutput>>
    /\ artifacts = {"copilot_prompt.txt", "verify.md"}
    /\ baseline = <<>>
    /\ deviations = <<>>
    /\ plan = <<>>
    /\ external_state = <<>>
    /\ now = 0
    /\ last = Report("none", "True", "", <<>>, {}, None)
    /\ running = NoneRunning

NextBaseline ==
    \/ SnapshotAny
    \/ VerifyOnTree
    \/ DiffBaselineAny

SpecBaseline == InitBaseline /\ [][NextBaseline]_vars

\* the files of a tree outside the state directory
OutsideState(tree) == {f \in tree : f[1] # WRAPPER_DIR}

\* the tree the baseline was captured from by the command that has just run
CapturedTree ==
    IF last.cmd = "snapshot" THEN last.answer ELSE last.answer.tree

\* the command that has just run has captured the baseline
JustCaptured ==
    \/ last.cmd = "snapshot"
    \/ last.cmd = "verify" /\ last.answer.llm_dev # None

\* C19: a diff-baseline never changes the stored baseline, nor any other
\* document; and when it runs right after the snapshot or the verify that
\* captured the baseline, on a tree that differs from the captured one
\* only by files in the state directory, it reports no change and lists
\* no new and no removed file or directory
C19_UnmodifiedTree ==
    [][last'.cmd = "diff-baseline" =>
         /\ UNCHANGED docs
         /\ (JustCaptured /\ OutsideState(last'.answer) = OutsideState(CapturedTree)) =>
                /\ last'.ret = "True"
                /\ last'.out = "NO CHANGES DETECTED"
                /\ last'.errors = <<>>]_vars

\* a diff-baseline has run right after a capture from a tree with a
\* package directory, on the tree with the files the tool has written to
\* the state directory since, and has reported no change
C19_Witness ==
    /\ last.cmd = "diff-baseline"
    /\ last.out = "NO CHANGES DETECTED"
    /\ last.answer = {PathA, PathSrc, PathPyc, PathSnapshot}
    /\ Len(baseline[1].directories) = 1
    /\ Len(baseline[1].files) = 2


\* ---------------------------------------------------------------------
\* the dependency warning of the propose prompt, on the External State
\* that sync-external writes
\* ---------------------------------------------------------------------

\* the depends_on lists of repo.yaml
DependsOnLists == {<<>>, <<"ui">>, <<"llm", "ui">>}

\* dep_info.get("status"), on an entry of the External State or on the
\* empty mapping used for a repo that has none
StatusOf(mapping, dep_repo) ==
    IF dep_repo \in DOMAIN mapping /\ "status" \in DOMAIN mapping[dep_repo]
    THEN mapping[dep_repo].status
    ELSE None

RECURSIVE unverified_deps(_, _)
\* build_propose_prompt: the dependencies it names in the DEPENDENCY WARNING
unverified_deps(depends_on, ext) ==
    IF depends_on = <<>> \/ ext = <<>> THEN <<>>
    ELSE (IF Head(depends_on) # ""
             /\ StatusOf(ext[1], Head(depends_on)) # "baseline_verified"
          THEN <<Head(depends_on)>> ELSE <<>>)
         \o unverified_deps(Tail(depends_on), ext)

\* build_propose_prompt on the External State of the directory
BuildProposePrompt ==
    \E depends_on \in DependsOnLists :
        LET deps == unverified_deps(depends_on, external_state)
        IN  /\ Ends(Report("build_propose_prompt", "True",
                           IF deps = <<>> THEN "" ELSE "DEPENDENCY WARNING",
                           deps, {}, depends_on))
            /\ UNCHANGED <<docs, now>>

NextDeps ==
    \/ SyncExternalAny
    \/ BuildProposePrompt

SpecDeps == InitSync /\ [][NextDeps]_vars

\* the sync-external that has just run has written the External State from
\* a ledger of this repo, and every ledger of this repo it was given has
\* reached the baseline-verified state
SyncedVerified(dep) ==
    /\ last.cmd = "sync-external"
    /\ last.ret = "True"
    /\ \E i \in 1..Len(last.answer) :
          last.answer[i].kind = "ledger" /\ last.answer[i].ledger.repo = dep
    /\ \A i \in 1..Len(last.answer) :
          (last.answer[i].kind = "ledger" /\ last.answer[i].ledger.repo = dep)
              => last.answer[i].ledger.baseline_verified = "True"

\* C20: the prompt built right after a sync-external, or with no External
\* State at all, names in its dependency warning exactly the declared
\* dependencies that are not synced from a baseline-verified ledger
C20_AsStated ==
    [][(/\ last'.cmd = "build_propose_prompt"
        /\ external_state = <<>> \/ (last.cmd = "sync-external" /\ last.ret = "True"))
       => \A i \in 1..Len(last'.answer) :
             (last'.answer[i] \in SeqToSet(last'.errors))
                 <=> ~(external_state # <<>> /\ SyncedVerified(last'.answer[i]))]_vars


\* ---------------------------------------------------------------------
\* the git calls of accept
\* ---------------------------------------------------------------------

\* C21: no accept ends in a propagated git error; in the runs of accept
\* on their own the working directory is either a repository with a HEAD
\* commit or no repository, so a git error is one of running outside a
\* repository
C21_AsStated ==
    [][last'.cmd = "accept" =>
         ~(last'.ret = "exception" /\ last'.out = "Git command failed")]_vars


\* ---------------------------------------------------------------------
\* the menu of refine_phases
\* ---------------------------------------------------------------------

\* the entries picked at the menu in the plan init that has just run
PicksMade == last'.answer.wizard.refine

\* the plan init that has just run has shown the menu of refine_phases
ShownRefineMenu ==
    /\ last'.cmd = "plan init"
    /\ last'.answer.wizard.end = "built"
    /\ last'.out \in {"EOFError", "Planning cancelled.", "plan saved"}
    /\ last'.ret # "interrupt"
    /\ plan # <<>> => last'.answer.keys = <<"2">>

\* C22: a plan init in which the human picks "Regenerate phases", confirms
\* and then continues does not end as cancelled but saves a plan; one in
\* which the human picks "Split a phase" and then continues saves the plan
\* of the phases proposed
C22_AsStated ==
    [][ShownRefineMenu =>
         /\ PicksMade = <<Pick(5, TRUE), Continue>> =>
                (last'.ret = "True" /\ last'.out = "plan saved" /\ plan' # <<>>)
         /\ PicksMade = <<Pick(3, FALSE), Continue>> =>
                (/\ last'.ret = "True"
                 /\ plan' = <<BuildPlan(last'.answer.wizard.layout)>>)]_vars


\* ---------------------------------------------------------------------
\* the scan on its own: snapshot runs on every tree over the names of the
\* denylist
\* ---------------------------------------------------------------------

TreesDeny == SUBSET {PathA, PathPyc, PathMod, PathEgg, PathDS, PathSnapshot}

SnapshotDeny == \E tree \in TreesDeny : cmd_snapshot(tree)

NextScan == SnapshotDeny

SpecScan == InitSync /\ [][NextScan]_vars

\* the directory names of the trees that the denylist names or matches, or
\* that are hidden; the file names it names or matches
DeniedDirs == {"node_modules", WRAPPER_DIR, "pkg.egg-info"}
DeniedFiles == {"m.pyc", ".DS_Store"}

\* a path of a scan result is clear of the denylist
Clear(path, isFile) ==
    /\ \A i \in 1..(Len(path) - 1) : path[i] \notin DeniedDirs
    /\ IF isFile THEN path[Len(path)] \notin DeniedFiles
       ELSE path[Len(path)] \notin DeniedDirs

\* C24: in every baseline a snapshot stores, no directory and no file is
\* on the denylist or beneath a directory that is
C24_AsStated ==
    [][last'.cmd = "snapshot" =>
         /\ \A i \in 1..Len(baseline'[1].directories) :
               Clear(baseline'[1].directories[i], FALSE)
         /\ \A i \in 1..Len(baseline'[1].files) :
               Clear(baseline'[1].files[i], TRUE)]_vars

----------------------------------------------------------------------------
(* C25: the verdict of a verify run is the union of the rule-based and the  *)
(* model-based layer. A run that reaches its verdict records PASS exactly   *)
(* when its error list is empty; every error is an allowed-files error, a   *)
(* forbidden-pattern match or the model's 'VERDICT: FAIL' (in any case of   *)
(* letters); the model's error is listed exactly when the answer contains   *)
(* that verdict, so an answer stating neither verdict adds none and a       *)
(* failed call adds none; warnings are no errors and leave the verdict as   *)
(* it is; repair_prompt.txt is written exactly when the verdict is FAIL.    *)

Verdicts == {"VERIFICATION PASSED", "VERIFICATION FAILED"}

ErrorKinds(report) == {report.errors[i].kind : i \in 1..Len(report.errors)}

RuleKinds ==
    {"No files should be modified", "Modified files not in allowed list",
     "Forbidden pattern detected"}

C25_VerdictIsUnion ==
    [][(last'.cmd = "verify" /\ last'.out \in Verdicts) =>
         LET passed == state_json'[1].last_verify_status = "PASS"
             kinds  == ErrorKinds(last')
             said   == last'.answer.llm \in {"VERDICT: FAIL", "Verdict: Fail"}
         IN  /\ state_json'[1].last_verify_status \in {"PASS", "FAIL"}
             /\ passed <=> last'.errors = <<>>
             /\ passed <=> last'.ret = "True"
             /\ passed <=> last'.out = "VERIFICATION PASSED"
             /\ kinds \subseteq RuleKinds \cup {"LLM analysis found issues"}
             /\ ("LLM analysis found issues" \in kinds) <=> said
             /\ (kinds \cap RuleKinds # {}) => last'.changed # {}
             /\ artifacts' = IF passed THEN artifacts
                             ELSE artifacts \cup {"repair_prompt.txt"}]_vars

\* a run passed although it warned of a new directory, on an answer of the
\* model that states no verdict
C25_Witness ==
    /\ last.cmd = "verify"
    /\ last.out = "VERIFICATION PASSED"
    /\ last.answer.warnings # <<>>
    /\ last.answer.llm = "looks fine"
    /\ last.errors = <<>>
    /\ state_json[1].last_verify_status = "PASS"
    /\ "repair_prompt.txt" \notin artifacts

\* a run failed on the model's verdict alone and left the repair prompt
C25_FailedOnModel ==
    /\ last.cmd = "verify"
    /\ last.out = "VERIFICATION FAILED"
    /\ ErrorKinds(last) = {"LLM analysis found issues"}
    /\ state_json[1].last_verify_status = "FAIL"
    /\ "repair_prompt.txt" \in artifacts

----------------------------------------------------------------------------
(* C26: the ledger flag baseline_verified, which the first verify run sets  *)
(* to false when it captures the baseline, is set to true by the accept     *)
(* that follows: a successful accept on a ledger whose flag is false leaves *)
(* the flag true.                                                           *)

C26_AsStated ==
    [][(/\ last'.cmd = "accept"
        /\ last'.ret = "True"
        /\ last'.out = "accepted"
        /\ state_json # <<>>
        /\ state_json[1].baseline_verified = "False")
          => state_json'[1].baseline_verified = "True"]_vars

----------------------------------------------------------------------------
(* C27: accept is all-or-nothing with respect to the ledger: an accept run  *)
(* that does not end in success (it returns failure, or ends in an          *)
(* exception or an interrupt, as on a git failure while the changed files   *)
(* are collected or an interrupt at the notes prompt) leaves done_steps and *)
(* invariants as they were before the run.                                  *)

C27_AsStated ==
    [][(last'.cmd = "accept" /\ last'.ret # "True") =>
          LET before == load_state(state_json, repo_yaml)
          IN  /\ state_json'[1].done_steps = before.done_steps
              /\ state_json'[1].invariants = before.invariants]_vars

----------------------------------------------------------------------------
(* C28: a recorded PASS authorises acceptance only of the Step Definition   *)
(* that was verified: a Step Definition written after the last PASS is      *)
(* never accepted without a new verify run, even when it carries the same   *)
(* step_id. An accept run that directly follows a propose run that wrote    *)
(* the Step Definition does not succeed.                                    *)

C28_AsStated ==
    [][(/\ last.cmd = "propose"
        /\ last.out = "Proposed step written"
        /\ last'.cmd = "accept")
          => last'.out # "accepted"]_vars

----------------------------------------------------------------------------
(* C29: in every state the commands reach, each step of the Implementation  *)
(* Plan that is marked completed has its step_id among the done_steps of    *)
(* the ledger: accept marks a plan step only after it has appended the      *)
(* step to done_steps, and no command removes an entry or marks a step.     *)

CompletedIds ==
    IF plan = <<>> THEN {}
    ELSE {plan[1][pos[1]][pos[2]].step_id : pos \in get_completed_steps(plan[1])}

C29_CompletedAreDone == CompletedIds \subseteq DoneStepIds

\* an accept has marked a step of the plan
C29_Witness ==
    /\ last.cmd = "accept"
    /\ last.out = "accepted"
    /\ CompletedIds = {"s1"}
    /\ "s1" \in DoneStepIds

----------------------------------------------------------------------------
(* accept and the Deviations document on their own: a working directory    *)
(* whose last verify run passed, with a Deviations document some of whose   *)
(* entries are resolved already, then accept runs on every answer of the    *)
(* model                                                                    *)

\* the Deviations documents at accept time: none listed, or d1 and d2, each
\* unresolved or resolved by an earlier step
DeviationDocs ==
    {<<>>}
    \cup {<<[id |-> "d1", resolution_step |-> r1],
            [id |-> "d2", resolution_step |-> r2]>> :
              r1 \in {None, "s0"}, r2 \in {None, "s0", "s2"}}

\* how the model call of update_deviation_resolutions ends
ResolveAnswers == LLMFailures \cup {"[]", "[d1]", "[d1, d2]", "prose"}

ResolveInputs ==
    [ans : {"y", "n"}, llm : ResolveAnswers, git : {"ok"}, changed : {{}},
     notes : {""}]

AcceptResolve == \E in \in ResolveInputs : cmd_accept(in)

InitResolve ==
    /\ architecture = TRUE
    /\ repo_yaml = <<REPO_YAML_TEMPLATE>>
    /\ step_yaml \in {<<s>> : s \in Steps}
    /\ state_json \in {<<[VerifiedLedger EXCEPT !.last_verify_step = id]>> :
                          id \in {"s1", "s2"}}
    /\ baseline = <<capture_baseline_snapshot({PathA}, 1)>>
    /\ deviations \in {<<d>> : d \in DeviationDocs}
    /\ copilot_output = <<PastedOutput>>
    /\ artifacts = {"copilot_prompt.txt", "verify.md"}
    /\ plan = <<>>
    /\ external_state = <<>>
    /\ now = 1
    /\ last = Report("none", "True", "", <<>>, {}, None)
    /\ running = NoneRunning

NextResolve == AcceptResolve

SpecResolve == InitResolve /\ [][NextResolve]_vars

(* C30: a deviation's resolution_step is write-once. An accept run stamps   *)
(* it with the accepted step id only on deviations whose resolution_step is *)
(* null and whose id the model returned, and it stamps each of those; a     *)
(* resolution_step that is set is never changed by an accept; and when the  *)
(* model call fails or its answer does not parse the Deviations document is *)
(* left as it was and the accept succeeds as it would have.                 *)

\* the ids in the answer of the model
Returned(llm) ==
    CASE llm = "[d1]"     -> {"d1"}
      [] llm = "[d1, d2]" -> {"d1", "d2"}
      [] OTHER            -> {}

C30_WriteOnce ==
    [][\A in \in ResolveInputs : cmd_accept(in) =>
         LET step     == step_yaml[1]
             before   == deviations[1]
             after    == deviations'[1]
             accepted == last'.out = "accepted"
             failed   == in.llm \notin {"[]", "[d1]", "[d1, d2]"}
         IN  /\ Len(after) = Len(before)
             /\ \A i \in 1..Len(before) :
                   /\ after[i].id = before[i].id
                   /\ before[i].resolution_step # None =>
                         after[i].resolution_step = before[i].resolution_step
                   /\ (before[i].resolution_step = None
                       /\ after[i].resolution_step # None) =>
                         /\ after[i].resolution_step = step.step_id
                         /\ before[i].id \in Returned(in.llm)
                         /\ accepted
                   /\ (/\ before[i].resolution_step = None
                       /\ before[i].id \in Returned(in.llm)
                       /\ accepted
                       /\ step.goal # "") =>
                         after[i].resolution_step = step.step_id
             /\ failed => /\ deviations' = deviations
                          /\ accepted <=>
                               (/\ state_json[1].last_verify_status = "PASS"
                                /\ state_json[1].last_verify_step = step.step_id
                                /\ (step.step_id \in DoneStepIds => in.ans = "y"))]_vars

\* the model returned d1 and d2 at the accept of s1: d1, resolved by s0
\* before, is left alone and d2 is stamped
C30_Witness ==
    /\ last.cmd = "accept"
    /\ last.out = "accepted"
    /\ Len(deviations[1]) = 2
    /\ deviations[1][1].resolution_step = "s0"
    /\ deviations[1][2].resolution_step = "s1"

----------------------------------------------------------------------------
(* Two invocations at once: a working directory whose last verify run      *)
(* passed for the current step, and two terminals that each run one accept  *)
(* or one verify. Every read and every write of state.json is a step of    *)
(* its own, and the steps of the two invocations interleave.                *)

\* a variant of save_state that writes nothing
save_nothing(file, st) == file

\* save_state: the file holds the object it was given, whole
save_state(file, st) == <<st>>

\* p goes on to pc holding the ledger object st
Goes(p, pc, st) == running' = [running EXCEPT ![p].pc = pc, ![p].state = st]

\* cmd_accept up to its prompt: load_state, the gate, the re-accept prompt
AcceptGate(p, ans) ==
    /\ running[p].pc = "idle"
    /\ LET st      == load_state(state_json, repo_yaml)
           step_id == step_yaml[1].step_id
           already == step_id \in SeqToSet(DoneIds(st))
       IN  IF accept_blocked(st, step_id)
           THEN /\ running' = [running EXCEPT ![p] =
                       [cmd |-> "accept", pc |-> "failed", state |-> st,
                        verdict |-> None]]
                /\ last' = Report("accept", "False", "ACCEPT BLOCKED", <<>>, {}, None)
           ELSE IF already /\ ~confirms(ans)
           THEN /\ running' = [running EXCEPT ![p] =
                       [cmd |-> "accept", pc |-> "failed", state |-> st,
                        verdict |-> None]]
                /\ last' = Report("accept", "False", "Aborted.", <<>>, {}, ans)
           ELSE /\ running' = [running EXCEPT ![p] =
                       [cmd |-> "accept", pc |-> "gate passed", state |-> st,
                        verdict |-> None]]
                /\ UNCHANGED last
    /\ UNCHANGED <<docs, now>>

\* add_done_step: load_state
AddLoad(p) ==
    /\ running[p].pc = "gate passed"
    /\ Goes(p, "add loaded", load_state(state_json, repo_yaml))
    /\ UNCHANGED <<docs, now, last>>

\* add_done_step: the entry is appended to the object and save_state runs;
\* an accept that updates no invariants ends here
AddSave(p) ==
    /\ running[p].pc = "add loaded"
    /\ now < MaxClock
    /\ now' = now + 1
    /\ LET step == step_yaml[1]
           st   == add_done_step(running[p].state, step.step_id,
                                 step.type \o " completed", now + 1)
           more == step.type = "verification" /\ step.success_criteria # <<>>
       IN  /\ state_json' = save_state(state_json, st)
           /\ Goes(p, IF more THEN "added" ELSE "succeeded", st)
           /\ IF more THEN UNCHANGED last
              ELSE last' = Report("accept", "True", "accepted", <<>>, {}, None)
    /\ UNCHANGED <<architecture, repo_yaml, step_yaml, copilot_output, baseline,
                   deviations, plan, artifacts, external_state>>

\* the invariants update of cmd_accept: load_state
InvLoad(p) ==
    /\ running[p].pc = "added"
    /\ Goes(p, "inv loaded", load_state(state_json, repo_yaml))
    /\ UNCHANGED <<docs, now, last>>

\* the invariants update of cmd_accept: save_state, and the accept ends
InvSave(p) ==
    /\ running[p].pc = "inv loaded"
    /\ LET st == update_invariants(running[p].state, step_yaml[1])
       IN  /\ state_json' = save_state(state_json, st)
           /\ Goes(p, "succeeded", st)
    /\ last' = Report("accept", "True", "accepted", <<>>, {}, None)
    /\ UNCHANGED <<architecture, repo_yaml, step_yaml, copilot_output, baseline,
                   deviations, plan, artifacts, external_state, now>>

\* cmd_verify after its checks have given their verdict: load_state
VerdictLoad(p, verdict) ==
    /\ running[p].pc = "idle"
    /\ running' = [running EXCEPT ![p] =
           [cmd |-> "verify", pc |-> "verdict loaded",
            state |-> load_state(state_json, repo_yaml), verdict |-> verdict]]
    /\ UNCHANGED <<docs, now, last>>

\* cmd_verify: the verdict is written into the object and save_state runs
VerdictSave(p) ==
    /\ running[p].pc = "verdict loaded"
    /\ now < MaxClock
    /\ now' = now + 1
    /\ LET verdict == running[p].verdict
           st      == record_verdict(running[p].state, verdict, step_yaml[1], now + 1)
       IN  /\ state_json' = save_state(state_json, st)
           /\ Goes(p, IF verdict = "PASS" THEN "succeeded" ELSE "failed", st)
           /\ last' = Report("verify", IF verdict = "PASS" THEN "True" ELSE "False",
                             IF verdict = "PASS" THEN "VERIFICATION PASSED"
                             ELSE "VERIFICATION FAILED", <<>>, {}, NotAsked)
           /\ artifacts' = IF verdict = "PASS" THEN artifacts
                           ELSE artifacts \cup {"repair_prompt.txt"}
    /\ UNCHANGED <<architecture, repo_yaml, step_yaml, copilot_output, baseline,
                   deviations, plan, external_state>>

InitRace ==
    /\ architecture = TRUE
    /\ repo_yaml = <<REPO_YAML_TEMPLATE>>
    /\ step_yaml \in {<<s>> : s \in Steps}
    /\ state_json = <<[VerifiedLedger EXCEPT
                          !.last_verify_step = step_yaml[1].step_id]>>
    /\ baseline = <<capture_baseline_snapshot({PathA}, 1)>>
    /\ deviations = << <<>> >>
    /\ copilot_output = <<PastedOutput>>
    /\ artifacts = {"copilot_prompt.txt", "verify.md"}
    /\ plan = <<>>
    /\ external_state = <<>>
    /\ now = 1
    /\ last = Report("none", "True", "", <<>>, {}, None)
    /\ running = NoneRunning

NextRace ==
    \E p \in Procs :
        \/ \E ans \in {"y", "n"} : AcceptGate(p, ans)
        \/ AddLoad(p)
        \/ AddSave(p)
        \/ InvLoad(p)
        \/ InvSave(p)
        \/ \E verdict \in {"PASS", "FAIL"} : VerdictLoad(p, verdict)
        \/ VerdictSave(p)

SpecRace == InitRace /\ [][NextRace]_vars

(* C23: there is no locking on the state directory. When two invocations    *)
(* run at once with their ledger loads and saves interleaved, each save     *)
(* leaves the ledger as the saving invocation holds it: its own update on   *)
(* top of what it loaded, and nothing of what the other invocation has      *)
(* written since. So a done_steps entry or a recorded FAIL of the other     *)
(* invocation can be lost, and an accept can complete after a concurrent    *)
(* verify has recorded FAIL.                                                *)

\* p has just saved the ledger
SaveBy(p) ==
    /\ running[p].pc \in {"add loaded", "inv loaded", "verdict loaded"}
    /\ running'[p].pc # running[p].pc

C23_LastWriterWins ==
    [][\A p \in Procs : SaveBy(p) =>
         LET mine  == running[p].state
             saved == state_json'[1]
         IN  /\ state_json' # <<>>
             /\ running[p].pc = "add loaded" =>
                   /\ Len(saved.done_steps) = Len(mine.done_steps) + 1
                   /\ SubSeq(saved.done_steps, 1, Len(mine.done_steps)) = mine.done_steps
                   /\ saved.done_steps[Len(saved.done_steps)].step_id
                         = step_yaml[1].step_id
                   /\ saved.invariants = mine.invariants
                   /\ saved.last_verify_status = mine.last_verify_status
                   /\ saved.last_verify_timestamp = mine.last_verify_timestamp
             /\ running[p].pc = "inv loaded" =>
                   /\ saved.done_steps = mine.done_steps
                   /\ saved.last_verify_status = mine.last_verify_status
                   /\ saved.last_verify_timestamp = mine.last_verify_timestamp
             /\ running[p].pc = "verdict loaded" =>
                   /\ saved.done_steps = mine.done_steps
                   /\ saved.invariants = mine.invariants
                   /\ saved.last_verify_status = running[p].verdict]_vars

\* an accept and a verify have both ended, the verify with FAIL: the ledger
\* holds the accepted step and the status PASS, the FAIL is lost
C23_Witness ==
    \E p, q \in Procs :
        /\ running[p].cmd = "accept" /\ running[p].pc = "succeeded"
        /\ running[q].cmd = "verify" /\ running[q].pc = "failed"
        /\ running[q].verdict = "FAIL"
        /\ state_json[1].last_verify_status = "PASS"
        /\ Len(state_json[1].done_steps) = 1

\* two accepts have both succeeded and the ledger holds one entry
C23_LostEntry ==
    /\ \A p \in Procs : running[p].cmd = "accept" /\ running[p].pc = "succeeded"
    /\ Len(state_json[1].done_steps) = 1

\* a verify has recorded FAIL, and an accept that had passed its gate before
\* has appended its entry after that and has succeeded
C23_AcceptAfterFail ==
    \E p, q \in Procs :
        /\ running[p].cmd = "accept" /\ running[p].pc = "succeeded"
        /\ running[q].cmd = "verify" /\ running[q].pc = "failed"
        /\ state_json[1].last_verify_status = "FAIL"
        /\ Len(state_json[1].done_steps) = 1
        /\ state_json[1].done_steps[1].timestamp
              > state_json[1].last_verify_timestamp

====
